---- MODULE Spec2Model ----
(***************************************************************************)
(* A model of bibcheck's verification pipeline (src/main.py):              *)
(* ReferenceVerifier.verify_references and the three resolution clients    *)
(* it drives (verify_doi, verify_doi_crossref, verify_arxiv), followed by  *)
(* search_alternatives_for_invalid and the summary of generate_report.     *)
(*                                                                         *)
(* Python values are modelled as follows.  A dict is a function whose      *)
(* DOMAIN is its key set, so  'k' in d  is  "k" \in DOMAIN d.  A string    *)
(* the code slices, strips or rewrites is a sequence of tokens (a token    *)
(* stands for a run of characters: a resolver prefix, a blank, a word);    *)
(* the empty string is << >>.  A JSON value is a tagged record [t, v].     *)
(***************************************************************************)
EXTENDS Integers, Sequences, FiniteSets, TLC

\* ------------------------------------------------------------------ bounds

\* Longest input batch handed to verify_references.
MaxRecords == 2

\* ------------------------------------------------------------------- text

HttpsDoiOrg == "https://doi.org/"
HttpDxDoiOrg == "http://dx.doi.org/"
Blank == " "

\* s[:n]
Take(s, n) == SubSeq(s, 1, IF Len(s) < n THEN Len(s) ELSE n)

\* str.replace(tok, ''): every occurrence of the token is removed.
Remove(s, tok) == SelectSeq(s, LAMBDA x : x # tok)

RECURSIVE LStrip(_)
LStrip(s) == IF s # << >> /\ Head(s) = Blank THEN LStrip(Tail(s)) ELSE s

RECURSIVE RStrip(_)
RStrip(s) ==
    IF s # << >> /\ s[Len(s)] = Blank THEN RStrip(SubSeq(s, 1, Len(s) - 1)) ELSE s

\* str.strip()
Strip(s) == RStrip(LStrip(s))

\* sep.join(parts)
RECURSIVE Join(_, _)
Join(parts, sep) ==
    IF parts = << >> THEN << >>
    ELSE IF Len(parts) = 1 THEN parts[1]
    ELSE parts[1] \o sep \o Join(Tail(parts), sep)

\* str.split(): the words of a text.
Split(s) == SelectSeq(s, LAMBDA x : x # Blank)

\* str.lower() of one token.
LowerToken(x) == IF x = "10.1000/XYZ123" THEN "10.1000/xyz123" ELSE x

\* str.lower()
Lower(s) == [i \in 1..Len(s) |-> LowerToken(s[i])]

\* ------------------------------------------------------------------- JSON

JNull == [t |-> "null", v |-> << >>]
JStr(s) == [t |-> "str", v |-> s]
JNum(n) == [t |-> "num", v |-> n]
JList(q) == [t |-> "list", v |-> q]
JDict(f) == [t |-> "dict", v |-> f]
EmptyDict == JDict(<< >>)

\* dict.get(k, default)
Get(d, k, default) == IF k \in DOMAIN d.v THEN d.v[k] ELSE default

\* Python truthiness of a JSON value.
Truthy(j) ==
    CASE j.t = "null" -> FALSE
      [] j.t = "num" -> j.v # 0
      [] j.t = "dict" -> DOMAIN j.v # {}
      [] OTHER -> j.v # << >>

\* str(x)
PyStr(j) ==
    CASE j.t = "str" -> j.v
      [] j.t = "num" -> << ToString(j.v) >>
      [] j.t = "null" -> << "None" >>
      [] OTHER -> << "<repr>" >>

\* The value a helper returns, or the fact that it raised.
Returned(x) == [raised |-> FALSE, val |-> x]
Raised == [raised |-> TRUE, val |-> << >>]

\* ------------------------------------------------- Crossref field helpers

DateKeys == << "published-print", "published-online", "issued" >>

\* _extract_crossref_year from DateKeys[i] on.  message.get(k, {}) is the
\* stored value when the key is present, whatever its type, and .get on a
\* value that is no dict raises AttributeError.
RECURSIVE YearFrom(_, _)
YearFrom(message, i) ==
    IF i > Len(DateKeys) THEN Returned(<< >>)
    ELSE LET x == Get(message, DateKeys[i], EmptyDict)
         IN  IF x.t # "dict" THEN Raised
             ELSE LET dp == Get(x, "date-parts", JNull)
                  IN  IF /\ dp.t = "list"
                         /\ dp.v # << >>
                         /\ dp.v[1].t = "list"
                         /\ dp.v[1].v # << >>
                      THEN Returned(PyStr(dp.v[1].v[1]))
                      ELSE YearFrom(message, i + 1)

extract_crossref_year(message) == YearFrom(message, 1)

\* _extract_crossref_title / _extract_crossref_journal: the first element of
\* a non-empty list, the string itself, else ''.
FirstOrString(x) ==
    IF x.t = "list" /\ x.v # << >> THEN PyStr(x.v[1])
    ELSE IF x.t = "str" THEN x.v
    ELSE << >>

extract_crossref_title(message) == FirstOrString(Get(message, "title", JNull))

extract_crossref_journal(message) ==
    FirstOrString(Get(message, "container-title", JNull))

\* _strip_html: tags become blanks, runs of blanks collapse, ends are stripped.
TagTokens == { "<jats:p>", "</jats:p>" }

RECURSIVE Collapse(_)
Collapse(s) ==
    IF Len(s) < 2 THEN s
    ELSE IF s[1] = Blank /\ s[2] = Blank THEN Collapse(Tail(s))
    ELSE << s[1] >> \o Collapse(Tail(s))

strip_html(s) ==
    Strip(Collapse([i \in 1..Len(s) |-> IF s[i] \in TagTokens THEN Blank ELSE s[i]]))

\* -------------------------------------------------------------- transport

\* What one call on the shared requests session ends in: a response (exc =
\* "none") with its status code and body, or an exception.
Response(status, body) == [exc |-> "none", status |-> status, body |-> body]
Raises(e) == [exc |-> e, status |-> 0, body |-> JNull]

\* A body response.json() cannot parse.
NotJson == [t |-> "invalid", v |-> << >>]

\* str(e)[:50] of the exception a call ended in.
ExcText(out) == Take(<< out.exc >>, 50)

\* The model's record of a request keeps the method and the URL.
Req(method, url, headers) == [method |-> method, url |-> url]

\* self.user_agents (4 entries), named by their position.
UserAgents == 1..4

\* _get_random_user_agent: random.choice(self.user_agents)
get_random_user_agent == UserAgents

\* ---------------------------------------------------- resolution clients

\* The except clauses of verify_doi.
\* DoiExcept with the not-found message for a timeout.
DoiExceptAsNotFound(out, reqs) ==
    [valid |-> FALSE,
     message |-> CASE out.exc = "Timeout" -> << "DOI not found (404)" >>
                   [] out.exc = "ConnectionError" -> << "Connection error" >>
                   [] OTHER -> << "Error: " >> \o ExcText(out),
     status_code |-> 0,
     requests |-> reqs]

DoiExcept(out, reqs) ==
    [valid |-> FALSE,
     message |-> CASE out.exc = "Timeout" -> << "Timeout" >>
                   [] out.exc = "ConnectionError" -> << "Connection error" >>
                   [] OTHER -> << "Error: " >> \o ExcText(out),
     status_code |-> 0,
     requests |-> reqs]

DoiReturn(valid, message, code, reqs) ==
    [valid |-> valid, message |-> message, status_code |-> code, requests |-> reqs]

\* The for loop of verify_doi from doi_urls[i] on; script[i].head and
\* script[i].get are what the HEAD and the GET on doi_urls[i] end in.
RECURSIVE ResolveFrom(_, _, _, _, _)
ResolveFrom(urls, i, headers, script, reqs) ==
    IF i > Len(urls) THEN DoiReturn(FALSE, << "Could not verify" >>, 0, reqs)
    ELSE LET head == script[i].head
             r1 == Append(reqs, Req("HEAD", urls[i], headers))
             get == script[i].get
             r2 == Append(r1, Req("GET", urls[i], headers))
         IN  IF head.exc # "none" THEN DoiExcept(head, r1)
             ELSE IF head.status = 200
                  THEN DoiReturn(TRUE, << "Valid (resolved to ", "<response.url>", ")" >>, 200, r1)
             ELSE IF head.status = 404
                  THEN DoiReturn(FALSE, << "DOI not found (404)" >>, 404, r1)
             ELSE IF head.status = 403
                  THEN IF get.exc # "none" THEN DoiExcept(get, r2)
                       ELSE IF get.status = 200
                            THEN DoiReturn(TRUE, << "Valid (resolved with GET)" >>, 200, r2)
                       ELSE DoiReturn(FALSE, << "Access forbidden (403)" >>, get.status, r2)
             ELSE ResolveFrom(urls, i + 1, headers, script, r1)

\* verify_doi going on to the second host when the HEAD on the first raised.
verify_doiPastExceptions(doi, ua, script) ==
    LET urls == << << "https://doi.org/" >> \o doi, << "https://dx.doi.org/" >> \o doi >>
        r == ResolveFrom(urls, 1, [UserAgent |-> ua], script, << >>)
    IN  IF doi = << >> THEN DoiReturn(FALSE, << "No DOI provided" >>, 0, << >>)
        ELSE IF script[1].head.exc # "none"
             THEN ResolveFrom(urls, 2, [UserAgent |-> ua], script, r.requests)
        ELSE r

verify_doi(doi, ua, script) ==
    IF doi = << >> THEN DoiReturn(FALSE, << "No DOI provided" >>, 0, << >>)
    ELSE ResolveFrom(<< << "https://doi.org/" >> \o doi, << "https://dx.doi.org/" >> \o doi >>,
                     1, [UserAgent |-> ua], script, << >>)

CrossrefReturn(valid, message, meta, reqs) ==
    [valid |-> valid, message |-> message, meta |-> meta, requests |-> reqs]

crossref_base_url == << "https://api.crossref.org/works" >>

\* doi.strip().replace('https://doi.org/', '').replace('http://dx.doi.org/', '').strip()
normalize_doi(doi) == Strip(Remove(Remove(Strip(doi), HttpsDoiOrg), HttpDxDoiOrg))

\* verify_doi_crossref reading the body before it looks at the status code.
verify_doi_crossrefAnyStatus(doi, ua, out) ==
    LET normalized == normalize_doi(doi)
        url == crossref_base_url \o << "/" >> \o Lower(normalized)
        reqs == << Req("GET", url, [UserAgent |-> ua]) >>
        failed(message) == CrossrefReturn(FALSE, message, EmptyDict, reqs)
    IN  IF doi = << >> \/ normalized = << >>
        THEN CrossrefReturn(FALSE, << "No DOI provided" >>, EmptyDict, << >>)
        ELSE IF out.exc = "Timeout" THEN failed(<< "Crossref timeout" >>)
        ELSE IF out.exc = "ConnectionError" THEN failed(<< "Crossref connection error" >>)
        ELSE IF out.exc # "none" THEN failed(<< "Crossref error: " >> \o ExcText(out))
        ELSE IF out.body.t = "invalid"
        THEN failed(<< "Crossref error: " >> \o Take(<< "JSONDecodeError" >>, 50))
        ELSE IF out.body.t # "dict"
        THEN failed(<< "Crossref error: " >> \o Take(<< "AttributeError" >>, 50))
        ELSE IF out.status = 200
        THEN CrossrefReturn(TRUE, << "Valid (Crossref)" >>,
                            Get(out.body, "message", EmptyDict), reqs)
        ELSE IF out.status = 404
        THEN CrossrefReturn(FALSE, << "DOI not found in Crossref (404)" >>,
                            Get(out.body, "message", EmptyDict), reqs)
        ELSE CrossrefReturn(FALSE, << "Crossref error (HTTP ", ToString(out.status), ")" >>,
                            Get(out.body, "message", EmptyDict), reqs)

verify_doi_crossref(doi, ua, out) ==
    LET normalized == normalize_doi(doi)
        url == crossref_base_url \o << "/" >> \o Lower(normalized)
        reqs == << Req("GET", url, [UserAgent |-> ua]) >>
        failed(message) == CrossrefReturn(FALSE, message, EmptyDict, reqs)
    IN  IF doi = << >> \/ normalized = << >>
        THEN CrossrefReturn(FALSE, << "No DOI provided" >>, EmptyDict, << >>)
        ELSE IF out.exc = "Timeout" THEN failed(<< "Crossref timeout" >>)
        ELSE IF out.exc = "ConnectionError" THEN failed(<< "Crossref connection error" >>)
        ELSE IF out.exc # "none" THEN failed(<< "Crossref error: " >> \o ExcText(out))
        ELSE IF out.status = 200
             THEN IF out.body.t = "invalid"
                  THEN failed(<< "Crossref error: " >> \o Take(<< "JSONDecodeError" >>, 50))
                  ELSE IF out.body.t # "dict"
                  THEN failed(<< "Crossref error: " >> \o Take(<< "AttributeError" >>, 50))
                  ELSE CrossrefReturn(TRUE, << "Valid (Crossref)" >>,
                                      Get(out.body, "message", EmptyDict), reqs)
        ELSE IF out.status = 404 THEN failed(<< "DOI not found in Crossref (404)" >>)
        ELSE failed(<< "Crossref error (HTTP ", ToString(out.status), ")" >>)

ArxivReturn(valid, message, reqs) ==
    [valid |-> valid, message |-> message, requests |-> reqs]

\* verify_arxiv with the user agent in its message.
verify_arxivNamesAgent(arxiv_id, ua, out) ==
    LET reqs == << Req("HEAD", << "https://arxiv.org/abs/" >> \o arxiv_id, [UserAgent |-> ua]) >>
    IN  IF arxiv_id = << >> THEN ArxivReturn(FALSE, << "No arXiv ID provided" >>, << >>)
        ELSE IF out.exc # "none" THEN ArxivReturn(FALSE, << "Error: " >> \o ExcText(out), reqs)
        ELSE IF out.status = 200
             THEN ArxivReturn(TRUE, << "Valid arXiv ID", ToString(ua) >>, reqs)
        ELSE ArxivReturn(FALSE, << "arXiv ID not found (", ToString(out.status), ")" >>, reqs)

verify_arxiv(arxiv_id, ua, out) ==
    LET reqs == << Req("HEAD", << "https://arxiv.org/abs/" >> \o arxiv_id, [UserAgent |-> ua]) >>
    IN  IF arxiv_id = << >> THEN ArxivReturn(FALSE, << "No arXiv ID provided" >>, << >>)
        ELSE IF out.exc # "none" THEN ArxivReturn(FALSE, << "Error: " >> \o ExcText(out), reqs)
        ELSE IF out.status = 200 THEN ArxivReturn(TRUE, << "Valid arXiv ID" >>, reqs)
        ELSE ArxivReturn(FALSE, << "arXiv ID not found (", ToString(out.status), ")" >>, reqs)

\* ------------------------------------------------ alternative discovery

SearchReturn(items, reqs) == [items |-> items, requests |-> reqs]

\* The branch on which a search ends without candidates to offer: the except
\* clause after the session raised, the status test, the except clause after
\* response.json() or .get raised on the body; "none" on the other branch.
SearchFailure(out) ==
    IF out.exc # "none" THEN "exception"
    ELSE IF out.status # 200 THEN "status"
    ELSE IF out.body.t # "dict" THEN "body"
    ELSE IF Get(out.body, "message", EmptyDict).t # "dict" THEN "body"
    ELSE "none"

\* search_crossref_by_bibliographic without the test of the status code.
search_crossref_by_bibliographicAnyStatus(query, rows, ua, out) ==
    LET reqs == << Req("GET",
                       crossref_base_url \o << "?query.bibliographic=" >> \o query
                           \o << "&rows=", ToString(rows) >>,
                       [UserAgent |-> ua]) >>
        message == Get(out.body, "message", EmptyDict)
        items == Get(message, "items", JList(<< >>))
    IN  IF query = << >> THEN SearchReturn(<< >>, << >>)
        ELSE IF out.exc # "none" THEN SearchReturn(<< >>, reqs)
        ELSE IF out.body.t # "dict" THEN SearchReturn(<< >>, reqs)
        ELSE IF message.t # "dict" THEN SearchReturn(<< >>, reqs)
        ELSE IF Truthy(items) THEN SearchReturn(items.v, reqs)
        ELSE SearchReturn(<< >>, reqs)

\* search_crossref_by_bibliographic: the candidates of one GET on the works
\* route, [] when the query is empty, the status is not 200, or anything
\* raises (a body that is no JSON object, a 'message' that is no dict).
search_crossref_by_bibliographic(query, rows, ua, out) ==
    LET reqs == << Req("GET",
                       crossref_base_url \o << "?query.bibliographic=" >> \o query
                           \o << "&rows=", ToString(rows) >>,
                       [UserAgent |-> ua]) >>
        message == Get(out.body, "message", EmptyDict)
        items == Get(message, "items", JList(<< >>))
    IN  IF query = << >> THEN SearchReturn(<< >>, << >>)
        ELSE IF out.exc # "none" THEN SearchReturn(<< >>, reqs)
        ELSE IF out.status # 200 THEN SearchReturn(<< >>, reqs)
        ELSE IF out.body.t # "dict" THEN SearchReturn(<< >>, reqs)
        ELSE IF message.t # "dict" THEN SearchReturn(<< >>, reqs)
        ELSE IF Truthy(items) THEN SearchReturn(items.v, reqs)
        ELSE SearchReturn(<< >>, reqs)

\* The entry type of crossref_to_bibtex.
EntryType(message) ==
    LET t == PyStr(Get(message, "type", JStr(<< "article" >>)))
    IN  IF t = << "journal-article" >> THEN << "article" >>
        ELSE IF t \in { << "proceedings-article" >>, << "conference-paper" >> }
             THEN << "inproceedings" >>
        ELSE t

\* f"{a.get('given', '')} {a.get('family', '')}".strip()
AuthorName(a) ==
    Strip(PyStr(Get(a, "given", JStr(<< >>))) \o << Blank >>
              \o PyStr(Get(a, "family", JStr(<< >>))))

\* AuthorStr over every author, with or without a family name.
AuthorStrAll(authors) ==
    Join([i \in 1..Len(authors.v) |-> AuthorName(authors.v[i])], << " and " >>)

\* ' and '.join(... for a in authors if a.get('family'))
AuthorStr(authors) ==
    LET named == SelectSeq(authors.v, LAMBDA a : Truthy(Get(a, "family", JNull)))
    IN  Join([i \in 1..Len(named) |-> AuthorName(named[i])], << " and " >>)

\* authors[0].get and a.get raise on an 'author' that is no list of dicts.
AuthorsRaise(authors) ==
    /\ Truthy(authors)
    /\ \/ authors.t # "list"
       \/ \E i \in 1..Len(authors.v) : authors.v[i].t # "dict"

BibField(name, value) == << << "  ", name, " = {" >> \o value \o << "}," >> >>

\* message.get(k) truthy: the line of the field, else no line.
BibOptional(message, k, name) ==
    LET x == Get(message, k, JNull)
    IN  IF Truthy(x) THEN BibField(name, PyStr(x)) ELSE << >>

\* crossref_to_bibtex: the lines of the entry joined by newlines.
crossref_to_bibtex(message, original_key) ==
    LET authors == Get(message, "author", JList(<< >>))
        first_author ==
            IF Truthy(authors)
            THEN PyStr(Get(authors.v[1], "family", JStr(<< "Unknown" >>)))
            ELSE << >>
        extracted == extract_crossref_year(message)
        year == IF extracted.val # << >> THEN extracted.val ELSE << "YEAR" >>
        title == extract_crossref_title(message)
        title_words == Split(title)
        first_word == IF title_words # << >> THEN << title_words[1] >> ELSE << "Title" >>
        cite_key == IF original_key # << >> THEN original_key
                    ELSE first_author \o year \o first_word
        journal == extract_crossref_journal(message)
        author_str == AuthorStr(authors)
        lines ==
            << << "@" >> \o EntryType(message) \o << "{" >> \o cite_key \o << "," >> >>
                \o (IF title # << >> THEN BibField("title", title) ELSE << >>)
                \o (IF Truthy(authors) /\ author_str # << >>
                    THEN BibField("author", author_str) ELSE << >>)
                \o (IF journal # << >> THEN BibField("journal", journal) ELSE << >>)
                \o (IF year # << >> THEN BibField("year", year) ELSE << >>)
                \o BibOptional(message, "volume", "volume")
                \o BibOptional(message, "issue", "number")
                \o BibOptional(message, "page", "pages")
                \o BibOptional(message, "DOI", "doi")
                \o BibOptional(message, "URL", "url")
                \o << << "}" >> >>
    IN  IF message.t # "dict" \/ AuthorsRaise(authors) \/ extracted.raised
        THEN Raised
        ELSE Returned(Join(lines, << "\n" >>))

\* ref.get(k, '')
FieldOr(r, k, default) == IF k \in DOMAIN r THEN r[k] ELSE default

\* Query with the citation key as a query part of its own.
QueryWithKey(r) ==
    LET title == FieldOr(r, "title", << >>)
        key == FieldOr(r, "key", << >>)
    IN  Join((IF title # << >> THEN << Take(title, 100) >> ELSE << >>)
                 \o (IF key # << >> THEN << key >> ELSE << >>),
             << Blank >>)

\* The search query of one INVALID result: title[:100], journal[:50] and
\* year, those that are not empty, joined by blanks.
Query(r) ==
    LET title == FieldOr(r, "title", << >>)
        journal == FieldOr(r, "journal", << >>)
        year == FieldOr(r, "year", << >>)
    IN  Join((IF title # << >> THEN << Take(title, 100) >> ELSE << >>)
                 \o (IF journal # << >> THEN << Take(journal, 50) >> ELSE << >>)
                 \o (IF year # << >> THEN << year >> ELSE << >>),
             << Blank >>)

\* The comment block that opens the candidates of one INVALID result.
FoundHeader(r, n) ==
    LET title == FieldOr(r, "title", << >>)
    IN  << << "\n", "% ========================================" >>,
           << "% Original (INVALID): " >> \o FieldOr(r, "key", << "Unknown" >>) >>
            \o (IF title # << >> THEN << << "% Original title: " >> \o Take(title, 80) >>
                ELSE << >>)
            \o (IF FieldOr(r, "doi", << >>) # << >>
                THEN << << "% Original DOI: " >> \o r["doi"] \o << " (NOT FOUND)" >> >>
                ELSE << >>)
            \o << << "% Found ", ToString(n), " similar articles:" >>,
                  << "% ========================================", "\n" >> >>

\* The lines of candidate number i.
AlternativeLines(candidate, i, original_key) ==
    << << "% Alternative ", ToString(i), " for " >> \o original_key \o << ":" >>,
       << "% Title: " >> \o Take(extract_crossref_title(candidate), 100),
       << "% Journal: " >> \o Take(extract_crossref_journal(candidate), 80),
       << "% Year: " >> \o extract_crossref_year(candidate).val,
       << "% DOI: " >> \o PyStr(Get(candidate, "DOI", JStr(<< >>))),
       << "% Source: Crossref API search" >>,
       crossref_to_bibtex(candidate, original_key \o << "_alt", ToString(i) >>).val,
       << >> >>

AlternativeRaises(candidate) ==
    \/ candidate.t # "dict"
    \/ extract_crossref_year(candidate).raised
    \/ crossref_to_bibtex(candidate, << "k" >>).raised

\* for idx, alt in enumerate(alternatives, 1), from candidate i on: the lines
\* appended, or the fact that a helper raised.
RECURSIVE AlternativesFrom(_, _, _)
AlternativesFrom(alternatives, i, original_key) ==
    IF i > Len(alternatives) THEN Returned(<< >>)
    ELSE IF AlternativeRaises(alternatives[i]) THEN Raised
    ELSE LET rest == AlternativesFrom(alternatives, i + 1, original_key)
         IN  IF rest.raised THEN Raised
             ELSE Returned(AlternativeLines(alternatives[i], i, original_key) \o rest.val)

\* The three comment lines every alternatives file starts with.
AlternativesHeader ==
    << << "% Alternative references for potentially invalid citations" >>,
       << "% Generated: ", "<now>" >>,
       << "% Please review these suggestions and decide which to use", "\n" >> >>

\* ------------------------------------------------------------ input domain

\* parse_bib_file's records: 'type' and 'key', and each optional field
\* either absent from the dict or present with its extracted text.
DoiTexts == { << >>, << "10.1000/xyz123" >> }
ArxivTexts == { << "2101.00001" >> }

OtherFieldSets == { {}, { "title", "journal", "year", "url" } }

FieldText(k) ==
    CASE k = "title" -> << "A", "Title" >>
      [] k = "journal" -> << "Journal" >>
      [] k = "year" -> << "2020" >>
      [] OTHER -> << "https://example.org/paper" >>

Optional(k, texts) == { << >> } \cup { k :> x : x \in texts }

Reference(d, a, o) ==
    ("type" :> << "article" >>) @@ ("key" :> << "ref" >>) @@ d @@ a
        @@ [k \in o |-> FieldText(k)]

\* The records of a batch: a record with a DOI to look up carries every
\* other field, the others carry all of them or none.
References ==
    { Reference(d, a, o) :
        d \in Optional("doi", DoiTexts),
        a \in Optional("arxiv", ArxivTexts),
        o \in OtherFieldSets }
    \ { Reference("doi" :> x, a, {}) :
          x \in DoiTexts \ { << >> }, a \in Optional("arxiv", ArxivTexts) }

RECURSIVE Batches(_)
Batches(n) ==
    IF n = 0 THEN { << >> }
    ELSE Batches(n - 1) \cup
         { Append(b, r) : b \in { x \in Batches(n - 1) : Len(x) = n - 1 }, r \in References }

\* Crossref work payloads of a 200 response.
WorkMessage ==
    JDict(("DOI" :> JStr(<< "10.1000/xyz123" >>))
          @@ ("title" :> JList(<< JStr(<< "Foo" >>) >>))
          @@ ("container-title" :> JList(<< JStr(<< "Bar" >>) >>))
          @@ ("issued" :> JDict("date-parts" :> JList(<< JList(<< JNum(2020) >>) >>)))
          @@ ("abstract" :> JStr(<< "<jats:p>", "Text", "</jats:p>" >>)))

NullDateMessage ==
    JDict(("DOI" :> JStr(<< "10.1000/xyz123" >>)) @@ ("published-print" :> JNull))

Payloads ==
    { JDict("message" :> WorkMessage),
      JDict("message" :> NullDateMessage),
      JDict("status" :> JStr(<< "ok" >>)) }

\* A 200 response, and the ways a call can end otherwise: another status
\* code, an exception of the session, a 200 whose body is not the JSON
\* object the Crossref client expects.
Ok == Response(200, JNull)

Faults ==
    { Response(c, JNull) : c \in { 403, 404, 410 } }
        \cup { Raises(e) : e \in { "Timeout", "ConnectionError", "RequestException" } }
        \cup { Response(200, NotJson) }

\* The transports a run is made against: each answers a call with a 200 or
\* with its one fault.
Transports == { { Ok, f } : f \in Faults }

\* What the two resolver hosts answer to HEAD and to GET.  A call verify_doi
\* does not make is given one fixed answer.
Unused == Raises("unused")
HostScript(h, g) == [head |-> h, get |-> g]
Continues(h) == h.exc = "none" /\ h.status \notin { 200, 403, 404 }
GetAfter(h, outs) == IF h.exc = "none" /\ h.status = 403 THEN outs ELSE { Unused }
NextHost(h, outs) == IF Continues(h) THEN outs ELSE { Unused }

DoiScripts(outs) ==
    UNION { UNION { UNION { { << HostScript(h1, g1), HostScript(h2, g2) >> :
                                g2 \in GetAfter(h2, outs) } :
                            h2 \in NextHost(h1, outs) } :
                    g1 \in GetAfter(h1, outs) } :
            h1 \in outs }

\* The body of a 200 response to the Crossref lookup.
CrossrefAnswers(out) ==
    IF out = Ok THEN { Response(200, p) : p \in Payloads } ELSE { out }

\* random.uniform(*self.delay_range), in whole seconds of the default range.
DelayMin == 1
DelayMax == 3
delay == DelayMin..DelayMax

\* ------------------------------------------------------------------ state

VARIABLES
    references,  \* verify_references' argument
    transport,   \* the answers the network gives in this run
    pc,          \* where verify_references stands
    idx,         \* records completed so far (enumerate index - 1)
    result,      \* the result dict of the record being processed
    results,     \* the list verify_references returns
    trace,       \* what has happened for the record being processed
    requests,    \* the network requests issued for the record being processed
    run,         \* 1, or 2 when the same batch is verified again
    first,       \* what the first run returned
    answers,     \* a replaying transport's answer to each request seen
    drawn,       \* the last User-Agent and pacing delay drawn at random
    call,        \* a direct call of one client: its name and arguments
    ret,         \* what that call returned, once it has
    args,        \* main's command-line options
    alt,         \* search_alternatives_for_invalid's locals and its searches
    files,       \* the files written, by name
    summary,     \* the counts of generate_report
    enrich,      \* the abstract pass: results visited, browser calls, delays
    gui          \* the GUI: its worker thread, its queue, its UI loop

vars == << references, transport, pc, idx, result, results, trace, requests,
           run, first, answers, drawn, call, ret, args, alt, files, summary, enrich, gui >>

\* What main keeps beside verify_references.
program == << args, alt, files, summary, enrich, gui >>

\* The state outside verify_references.
outside == << call, ret, program >>

ref == references[idx + 1]

Event(ev, last) == [ev |-> ev, last |-> last]

\* How the last request a check made ended: "none" when it made no request,
\* "ok" for a 200 response, else "status" or "exception".
Ended(out) ==
    IF out.exc # "none" THEN "exception" ELSE IF out.status = 200 THEN "ok" ELSE "status"

ScriptAnswer(script, q) ==
    LET i == IF q.url[1] = "https://doi.org/" THEN 1 ELSE 2
    IN  IF q.method = "GET" THEN script[i].get ELSE script[i].head

LastOfScript(script, reqs) ==
    IF reqs = << >> THEN "none" ELSE Ended(ScriptAnswer(script, reqs[Len(reqs)]))

LastOf(out, reqs) == IF reqs = << >> THEN "none" ELSE Ended(out)

\* A replaying transport answers a request it has seen as it did before.
Replays(replay, q, out) == replay /\ q \in DOMAIN answers => answers[q] = out

\* It remembers outs[i] as its answer to reqs[i].
Remember(replay, reqs, outs) ==
    IF replay
    THEN answers @@ [q \in { reqs[i] : i \in 1..Len(reqs) } |->
                        outs[CHOOSE i \in 1..Len(reqs) : reqs[i] = q]]
    ELSE answers

\* search_alternatives_for_invalid has not been in its loop.
NotSearching ==
    [refs |-> << >>, i |-> 0, bib_lines |-> << >>, searches |-> << >>, trace |-> << >>]

\* The GUI before Run is clicked: state['running'] is False, the queue is
\* empty, no worker thread exists, no run was started, the UI loop is
\* between two ticks.
NotRunning ==
    [running |-> FALSE, workers |-> { }, runs |-> 0, ui |-> "idle",
     queue |-> << >>, emitted |-> << >>, delivered |-> << >>]

\* The abstract pass has not visited a result.
NotEnriching == [i |-> 0, calls |-> << >>, trace |-> << >>]

Start(batches, transports, options) ==
    /\ references \in batches
    /\ transport \in transports
    /\ pc = "begin"
    /\ idx = 0
    /\ result = << >>
    /\ results = << >>
    /\ trace = << >>
    /\ requests = << >>
    /\ run = 1
    /\ first = << >>
    /\ answers = << >>
    /\ drawn = << >>
    /\ call = << >>
    /\ ret = << >>
    /\ args \in options
    /\ alt = NotSearching
    /\ files = << >>
    /\ summary = << >>
    /\ enrich = NotEnriching
    /\ gui = NotRunning

\* verify_references called on its own takes no options.
NoOptions == << >>

Init == Start(Batches(MaxRecords), Transports, { NoOptions })

\* ------------------------------------------------------ verify_references

\* DoiField falling back on the record's url.
DoiFieldOrUrl(r) ==
    IF "doi" \in DOMAIN r THEN << r["doi"] >>
    ELSE IF "url" \in DOMAIN r THEN << r["url"] >>
    ELSE << >>

\* if 'doi' in ref: ... ref['doi'], and the same for 'arxiv': the field's
\* text when the check runs, as a sequence of at most one text.
DoiField(r) == IF "doi" \in DOMAIN r THEN << r["doi"] >> ELSE << >>
ArxivField(r) == IF "arxiv" \in DOMAIN r THEN << r["arxiv"] >> ELSE << >>

\* AfterDoi with the arXiv check left out.
AfterDoiSkipsArxiv(r) == "status"

AfterDoi(r) == IF ArxivField(r) # << >> THEN "arxiv" ELSE "status"
AfterBegin(r) == IF DoiField(r) # << >> THEN "doi" ELSE AfterDoi(r)

\* result = ref.copy(); result['verification'] = {}
\* NewResult without the record's url.
NewResultWithoutUrl(r) ==
    [k \in DOMAIN r \ { "url" } |-> r[k]] @@ ("verification" :> << >>)

NewResult(r) == r @@ ("verification" :> << >>)

SetVerification(res, k, entry) ==
    [res EXCEPT !["verification"] = (k :> entry) @@ @]

\* progress_callback with the index counted from 0.
ProgressFromZero(current, total, key) ==
    [ev |-> "progress", last |-> "none", args |-> << current - 1, total, key >>]

\* progress_callback(idx, total, ref.get('key', 'Unknown'))
Progress(current, total, key) ==
    [ev |-> "progress", last |-> "none", args |-> << current, total, key >>]

\* The head of the loop body: the copy, the progress callback, the log lines.
BeginRecord ==
    /\ pc = "begin"
    /\ idx < Len(references)
    /\ result' = NewResult(ref)
    /\ trace' = << Progress(idx + 1, Len(references), FieldOr(ref, "key", << "Unknown" >>)),
                   Event("log", "none") >>
    /\ requests' = << >>
    /\ pc' = AfterBegin(ref)
    /\ UNCHANGED << references, transport, idx, results, run, first, answers, drawn, outside >>

\* verify_doi, its entry, the pacing delay.
CheckDoi(ua, d, replay) ==
    /\ pc = "doi"
    /\ \E script \in DoiScripts(transport) :
         LET r == verify_doi(DoiField(ref)[1], ua, script)
             outs == [i \in 1..Len(r.requests) |-> ScriptAnswer(script, r.requests[i])]
         IN  /\ \A i \in 1..Len(r.requests) : Replays(replay, r.requests[i], outs[i])
             /\ answers' = Remember(replay, r.requests, outs)
             /\ result' = SetVerification(result, "doi_resolve",
                              [valid |-> r.valid, message |-> r.message,
                               status_code |-> r.status_code])
             /\ requests' = requests \o r.requests
             /\ trace' = trace \o << Event("doi_resolve", LastOfScript(script, r.requests)),
                                     Event("delay", "none") >>
    /\ pc' = "crossref"
    /\ drawn' = [ua |-> ua, d |-> d]
    /\ UNCHANGED << references, transport, idx, results, run, first, outside >>

\* The metadata snapshot of a truthy crossref_message, and the abstract.
Snapshot(message) ==
    [doi |-> Get(message, "DOI", JStr(<< >>)),
     title |-> Take(extract_crossref_title(message), 200),
     journal |-> Take(extract_crossref_journal(message), 120),
     year |-> extract_crossref_year(message).val]

SnapshotRaises(message) ==
    \/ message.t # "dict"
    \/ extract_crossref_year(message).raised
    \/ /\ Truthy(Get(message, "abstract", JNull))
       /\ Get(message, "abstract", JNull).t # "str"

WithSnapshot(res, message) ==
    LET snap == SetVerification(res, "crossref", Snapshot(message))
        abstract == Get(message, "abstract", JNull)
    IN  IF "abstract" \notin DOMAIN res /\ Truthy(abstract)
        THEN snap @@ ("abstract" :> strip_html(abstract.v))
        ELSE snap

\* verify_doi_crossref, its entry, the snapshot, the pacing delay.
CheckCrossref(ua, d, replay) ==
    /\ pc = "crossref"
    /\ \E o \in transport : \E out \in CrossrefAnswers(o) :
         LET r == verify_doi_crossref(DoiField(ref)[1], ua, out)
             outs == [i \in 1..Len(r.requests) |-> out]
             entered == SetVerification(result, "doi_crossref",
                            [valid |-> r.valid, message |-> r.message])
         IN  /\ \A i \in 1..Len(r.requests) : Replays(replay, r.requests[i], out)
             /\ answers' = Remember(replay, r.requests, outs)
             /\ requests' = requests \o r.requests
             /\ IF Truthy(r.meta) /\ SnapshotRaises(r.meta)
                THEN /\ result' = entered
                     /\ trace' = Append(trace, Event("doi_crossref", LastOf(out, r.requests)))
                     /\ pc' = "raised"
                ELSE /\ result' = IF Truthy(r.meta) THEN WithSnapshot(entered, r.meta)
                                  ELSE entered
                     /\ trace' = trace \o << Event("doi_crossref", LastOf(out, r.requests)),
                                             Event("delay", "none") >>
                     /\ pc' = AfterDoi(ref)
    /\ drawn' = [ua |-> ua, d |-> d]
    /\ UNCHANGED << references, transport, idx, results, run, first, outside >>

\* verify_arxiv, its entry, the pacing delay.
CheckArxiv(ua, d, replay) ==
    /\ pc = "arxiv"
    /\ \E out \in transport :
         LET r == verify_arxiv(ArxivField(ref)[1], ua, out)
             outs == [i \in 1..Len(r.requests) |-> out]
         IN  /\ \A i \in 1..Len(r.requests) : Replays(replay, r.requests[i], out)
             /\ answers' = Remember(replay, r.requests, outs)
             /\ result' = SetVerification(result, "arxiv",
                              [valid |-> r.valid, message |-> r.message])
             /\ requests' = requests \o r.requests
             /\ trace' = trace \o << Event("arxiv", LastOf(out, r.requests)),
                                     Event("delay", "none") >>
    /\ pc' = "status"
    /\ drawn' = [ua |-> ua, d |-> d]
    /\ UNCHANGED << references, transport, idx, results, run, first, outside >>

\* Status with a failed DOI resolution overriding a valid Crossref outcome.
StatusResolveOverrides(verification) ==
    IF "doi_crossref" \in DOMAIN verification
    THEN IF verification["doi_crossref"].valid /\ verification["doi_resolve"].valid
         THEN "VALID" ELSE "INVALID"
    ELSE IF "arxiv" \in DOMAIN verification
    THEN IF verification["arxiv"].valid THEN "VALID" ELSE "INVALID"
    ELSE "NO_IDENTIFIER"

\* Status with INVALID for a record that no check looked at.
StatusDefaultInvalid(verification) ==
    IF "doi_crossref" \in DOMAIN verification
    THEN IF verification["doi_crossref"].valid THEN "VALID" ELSE "INVALID"
    ELSE IF "arxiv" \in DOMAIN verification
    THEN IF verification["arxiv"].valid THEN "VALID" ELSE "INVALID"
    ELSE "INVALID"

\* Status with a valid arXiv outcome rescuing an invalid Crossref outcome.
StatusArxivRescues(verification) ==
    IF "arxiv" \in DOMAIN verification /\ verification["arxiv"].valid
    THEN "VALID"
    ELSE IF "doi_crossref" \in DOMAIN verification
    THEN IF verification["doi_crossref"].valid THEN "VALID" ELSE "INVALID"
    ELSE IF "arxiv" \in DOMAIN verification THEN "INVALID"
    ELSE "NO_IDENTIFIER"

\* The two-level status rule.
Status(verification) ==
    IF "doi_crossref" \in DOMAIN verification
    THEN IF verification["doi_crossref"].valid THEN "VALID" ELSE "INVALID"
    ELSE IF "arxiv" \in DOMAIN verification
    THEN IF verification["arxiv"].valid THEN "VALID" ELSE "INVALID"
    ELSE "NO_IDENTIFIER"

\* status, result['status'], results.append(result)
DeriveStatus ==
    /\ pc = "status"
    /\ results' = Append(results, result @@ ("status" :> Status(result["verification"])))
    /\ result' = << >>
    /\ trace' = Append(trace, Event("status", "none"))
    /\ idx' = idx + 1
    /\ pc' = "begin"
    /\ UNCHANGED << references, transport, requests, run, first, answers, drawn, outside >>

\* return results
Return ==
    /\ pc = "begin"
    /\ idx = Len(references)
    /\ pc' = "done"
    /\ UNCHANGED << references, transport, idx, result, results, trace, requests,
                    run, first, answers, drawn, outside >>

\* The random draws (user agent, pacing delay) do not reach the state, so
\* this specification follows one draw of each.
Next ==
    \/ BeginRecord
    \/ CheckDoi(1, DelayMin, FALSE)
    \/ CheckCrossref(1, DelayMin, FALSE)
    \/ CheckArxiv(1, DelayMin, FALSE)
    \/ DeriveStatus
    \/ Return

Spec == Init /\ [][Next]_vars

\* ------------------------------------------------ the same batch, twice

\* The batches verified twice: records with both identifiers, with a DOI
\* alone, with none.
MaxRerun == 2

RerunReferences ==
    { Reference("doi" :> << "10.1000/xyz123" >>, a, { "title", "journal", "year", "url" }) :
          a \in Optional("arxiv", ArxivTexts) }
        \cup { Reference(<< >>, << >>, { "title", "journal", "year", "url" }) }

\* The transports they are verified against: a status that ends the check, one
\* that sends verify_doi on to GET, one that sends it on to the second host,
\* and an exception.
RerunTransports ==
    { { Ok, f } : f \in { Response(404, JNull), Response(403, JNull),
                          Response(410, JNull), Raises("Timeout") } }

RECURSIVE RerunBatches(_)
RerunBatches(n) ==
    IF n = 0 THEN { << >> }
    ELSE LET shorter == RerunBatches(n - 1)
         IN  shorter \cup { Append(b, r) : b \in { x \in shorter : Len(x) = n - 1 },
                                           r \in RerunReferences }

InitDet == Start(RerunBatches(MaxRerun), RerunTransports, { NoOptions })

\* verify_references is called again on the same list, against the same
\* transport.
Rerun ==
    /\ pc = "done"
    /\ run = 1
    /\ first' = results
    /\ run' = 2
    /\ pc' = "begin"
    /\ idx' = 0
    /\ result' = << >>
    /\ results' = << >>
    /\ trace' = << >>
    /\ requests' = << >>
    /\ UNCHANGED << references, transport, answers, drawn, outside >>

\* The draws of a run: the first run follows one draw of each, the second
\* makes every draw.  Two runs that each repeat that first run repeat each
\* other.
Draws ==
    IF run = 1 THEN { [ua |-> 1, d |-> DelayMin] }
    ELSE [ua : get_random_user_agent, d : delay]

\* Both runs are made against a transport that answers a request as it
\* answered it before.
NextDet ==
    \/ BeginRecord
    \/ \E x \in Draws : CheckDoi(x.ua, x.d, TRUE)
    \/ \E x \in Draws : CheckCrossref(x.ua, x.d, TRUE)
    \/ \E x \in Draws : CheckArxiv(x.ua, x.d, TRUE)
    \/ DeriveStatus
    \/ Return
    \/ Rerun

SpecDet == InitDet /\ [][NextDet]_vars

\* ------------------------------------------------------ the clients alone

\* A DOI argument: None, or a string.
None == << >>
Some(text) == << text >>

ClientDoiTexts ==
    { << >>,
      << Blank >>,
      << Blank, Blank >>,
      << HttpsDoiOrg >>,
      << HttpsDoiOrg, Blank >>,
      << "10.1000/xyz123" >>,
      << "10.1000/XYZ123" >>,
      << HttpsDoiOrg, "10.1000/xyz123" >>,
      << Blank, HttpDxDoiOrg, "10.1000/xyz123", Blank >> }

ClientDois == { None } \cup { Some(t) : t \in ClientDoiTexts }
ClientArxivIds == { None, Some(<< >>), Some(<< "2101.00001" >>) }

Outcomes == { Ok } \cup Faults

ClientCalls ==
    { [client |-> "verify_doi", arg |-> a, script |-> sc] :
          a \in ClientDois, sc \in DoiScripts(Outcomes) }
        \cup { [client |-> "verify_doi_crossref", arg |-> a, out |-> o] :
                   a \in ClientDois, o \in UNION { CrossrefAnswers(x) : x \in Outcomes } }
        \cup { [client |-> "verify_arxiv", arg |-> a, out |-> o] :
                   a \in ClientArxivIds, o \in Outcomes }

InitClients ==
    /\ references = << >>
    /\ transport = { }
    /\ pc = "client"
    /\ idx = 0
    /\ result = << >>
    /\ results = << >>
    /\ trace = << >>
    /\ requests = << >>
    /\ run = 1
    /\ first = << >>
    /\ answers = << >>
    /\ drawn = << >>
    /\ call \in ClientCalls
    /\ ret = << >>
    /\ args = NoOptions
    /\ alt = NotSearching
    /\ files = << >>
    /\ summary = << >>
    /\ enrich = NotEnriching
    /\ gui = NotRunning

pipeline == << references, transport, pc, idx, result, results, trace, requests,
               run, first, answers, drawn >>

\* if not doi: return False, "No DOI provided", 0 -- for None as for ''.
CallVerifyDoi ==
    /\ call.client = "verify_doi"
    /\ ret = << >>
    /\ \E ua \in get_random_user_agent :
         ret' = << IF call.arg = None
                   THEN DoiReturn(FALSE, << "No DOI provided" >>, 0, << >>)
                   ELSE verify_doi(call.arg[1], ua, call.script) >>
    /\ UNCHANGED << pipeline, call, program >>

CallVerifyDoiCrossref ==
    /\ call.client = "verify_doi_crossref"
    /\ ret = << >>
    /\ \E ua \in get_random_user_agent :
         ret' = << IF call.arg = None
                   THEN CrossrefReturn(FALSE, << "No DOI provided" >>, EmptyDict, << >>)
                   ELSE verify_doi_crossref(call.arg[1], ua, call.out) >>
    /\ UNCHANGED << pipeline, call, program >>

CallVerifyArxiv ==
    /\ call.client = "verify_arxiv"
    /\ ret = << >>
    /\ \E ua \in get_random_user_agent :
         ret' = << IF call.arg = None
                   THEN ArxivReturn(FALSE, << "No arXiv ID provided" >>, << >>)
                   ELSE verify_arxiv(call.arg[1], ua, call.out) >>
    /\ UNCHANGED << pipeline, call, program >>

NextClients ==
    \/ CallVerifyDoi
    \/ CallVerifyDoiCrossref
    \/ CallVerifyArxiv

SpecClients == InitClients /\ [][NextClients]_vars

\* ------------------------------------------------------------ the program

\* Longest batch the whole program is run on.
MaxMain == 3

AllOthers == { "title", "journal", "year", "url" }

\* Its records: a DOI with the fields a search is made of, a DOI and an arXiv
\* id without them, and a record without identifiers.
MainReferences ==
    { Reference("doi" :> << "10.1000/xyz123" >>, << >>, AllOthers),
      Reference("doi" :> << "10.1000/xyz123" >>, "arxiv" :> << "2101.00001" >>, { }),
      Reference(<< >>, << >>, AllOthers) }

\* Its transports: one that answers 404, one that answers 403, one that
\* times out.
MainTransports ==
    { { Ok, f } : f \in { Response(404, JNull), Response(403, JNull), Raises("Timeout") } }

RECURSIVE MainBatches(_)
MainBatches(n) ==
    IF n = 0 THEN { << >> }
    ELSE LET shorter == MainBatches(n - 1)
         IN  shorter \cup { Append(b, r) : b \in { x \in shorter : Len(x) = n - 1 },
                                           r \in MainReferences }

\* --search-alternatives, --fetch-abstract, --use-browser given or not.
Options == [search_alternatives : BOOLEAN, fetch_abstract : BOOLEAN, use_browser : BOOLEAN]

\* The runs without --fetch-abstract.
InitMain ==
    Start(MainBatches(MaxMain), MainTransports, { o \in Options : ~o.fetch_abstract /\ ~o.use_browser })

\* main without --fetch-abstract goes on to the alternatives.
SkipEnrichment ==
    /\ pc = "done"
    /\ ~args.fetch_abstract
    /\ pc' = "enriched"
    /\ UNCHANGED << references, transport, idx, result, results, trace, requests,
                    run, first, answers, drawn, call, ret, program >>

\* The bodies of a 200 response to the bibliographic search.
SearchPayloads ==
    { JDict("message" :> JDict("items" :> JList(<< WorkMessage >>))),
      JDict("message" :> JDict("items" :> JList(<< WorkMessage, NullDateMessage >>))),
      JDict("message" :> JDict("items" :> JList(<< >>))),
      JDict("status" :> JStr(<< "ok" >>)) }

SearchAnswers(out) ==
    IF out = Ok THEN { Response(200, p) : p \in SearchPayloads } ELSE { out }

\* invalid_refs, as the positions of its results in the list.
InvalidRefs(rs) ==
    SelectSeq([i \in 1..Len(rs) |-> i], LAMBDA i : rs[i]["status"] = "INVALID")

AltEvent(ev, at) == [ev |-> ev, of |-> at]

\* main without --search-alternatives goes on to the report.
SkipAlternatives ==
    /\ pc = "enriched"
    /\ ~args.search_alternatives
    /\ pc' = "report"
    /\ UNCHANGED << references, transport, idx, result, results, trace, requests,
                    run, first, answers, drawn, call, ret, program >>

\* search_alternatives_for_invalid up to its loop: it returns at once when
\* no result is INVALID.
SearchAlternatives ==
    /\ pc = "enriched"
    /\ args.search_alternatives
    /\ LET invalid_refs == InvalidRefs(results)
       IN  IF invalid_refs = << >>
           THEN /\ pc' = "report"
                /\ alt' = alt
           ELSE /\ pc' = "alternatives"
                /\ alt' = [refs |-> invalid_refs, i |-> 0, bib_lines |-> AlternativesHeader,
                           searches |-> << >>, trace |-> << >>]
    /\ UNCHANGED << references, transport, idx, result, results, trace, requests,
                    run, first, answers, drawn, call, ret, args, files, summary, enrich, gui >>

\* One turn of its loop: the query, the search, the candidates' lines, the
\* pacing delay.
SearchFor(ua, d) ==
    /\ pc = "alternatives"
    /\ alt.i < Len(alt.refs)
    /\ LET at == alt.refs[alt.i + 1]
           r == results[at]
           original_key == FieldOr(r, "key", << "Unknown" >>)
           query == Query(r)
       IN  IF query = << >>
           THEN /\ alt' = [alt EXCEPT !.i = @ + 1,
                                      !.trace = Append(@, AltEvent("skip", at))]
                /\ pc' = pc
                /\ drawn' = drawn
           ELSE \E o \in transport : \E out \in SearchAnswers(o) :
                  LET found == search_crossref_by_bibliographic(query, 3, ua, out)
                      lines == AlternativesFrom(found.items, 1, original_key)
                      searched == [alt EXCEPT !.searches =
                                       Append(@, [of |-> at, requests |-> found.requests,
                                                  failure |-> SearchFailure(out),
                                                  found |-> Len(found.items)])]
                  IN  IF found.items = << >>
                      THEN /\ alt' = [searched EXCEPT
                                          !.i = @ + 1,
                                          !.trace = Append(@, AltEvent("search", at))]
                           /\ pc' = pc
                           /\ drawn' = [ua |-> ua, d |-> drawn.d]
                      ELSE IF lines.raised
                      THEN /\ alt' = [searched EXCEPT
                                          !.trace = Append(@, AltEvent("search", at))]
                           /\ pc' = "alternatives_raised"
                           /\ drawn' = [ua |-> ua, d |-> drawn.d]
                      ELSE /\ alt' = [searched EXCEPT
                                          !.i = @ + 1,
                                          !.bib_lines = @ \o FoundHeader(r, Len(found.items))
                                                          \o lines.val,
                                          !.trace = @ \o << AltEvent("search", at),
                                                            AltEvent("delay", at) >>]
                           /\ pc' = pc
                           /\ drawn' = [ua |-> ua, d |-> d]
    /\ UNCHANGED << references, transport, idx, result, results, trace, requests,
                    run, first, answers, call, ret, args, files, summary, enrich, gui >>

\* After the loop: bib_lines holds the header at least, and is written.
SaveAlternatives ==
    /\ pc = "alternatives"
    /\ alt.i = Len(alt.refs)
    /\ files' = IF alt.bib_lines # << >>
                THEN ("alternatives_output" :> Join(alt.bib_lines, << "\n" >>)) @@ files
                ELSE files
    /\ pc' = "report"
    /\ UNCHANGED << references, transport, idx, result, results, trace, requests,
                    run, first, answers, drawn, call, ret, args, alt, summary, enrich, gui >>

CountStatus(rs, status) == Cardinality({ i \in 1..Len(rs) : rs[i]["status"] = status })

\* generate_report: the counts of the summary; the percentages divide by the
\* total.  The report text is built and dropped.
GenerateReport ==
    /\ pc = "report"
    /\ IF Len(results) = 0
       THEN /\ pc' = "report_raised"
            /\ summary' = summary
       ELSE /\ pc' = "exit"
            /\ summary' = [total |-> Len(results),
                           valid |-> CountStatus(results, "VALID"),
                           invalid |-> CountStatus(results, "INVALID"),
                           no_id |-> CountStatus(results, "NO_IDENTIFIER")]
    /\ UNCHANGED << references, transport, idx, result, results, trace, requests,
                    run, first, answers, drawn, call, ret, args, alt, files, enrich, gui >>

NextMain ==
    \/ BeginRecord
    \/ CheckDoi(1, DelayMin, FALSE)
    \/ CheckCrossref(1, DelayMin, FALSE)
    \/ CheckArxiv(1, DelayMin, FALSE)
    \/ DeriveStatus
    \/ Return
    \/ SkipEnrichment
    \/ SkipAlternatives
    \/ SearchAlternatives
    \/ SearchFor(1, DelayMin)
    \/ SaveAlternatives
    \/ GenerateReport

SpecMain == InitMain /\ [][NextMain]_vars

\* ------------------------------------------------- claims on the pipeline

Verification(i) == results[i]["verification"]
StatusOf(i) == results[i]["status"]
HasDoi(i) == "doi" \in DOMAIN references[i]
HasArxiv(i) == "arxiv" \in DOMAIN references[i]
ByValid(entry) == IF entry.valid THEN "VALID" ELSE "INVALID"

\* C1: a record with a DOI has a Crossref outcome, and its status is VALID
\* exactly when that outcome is valid and INVALID otherwise, whatever the
\* DOI-resolve outcome is.
CrossrefDecidesStatus ==
    \A i \in 1..Len(results) :
        HasDoi(i) =>
            /\ { "doi_resolve", "doi_crossref" } \subseteq DOMAIN Verification(i)
            /\ StatusOf(i) = ByValid(Verification(i)["doi_crossref"])

\* C1's case: one result VALID against an invalid DOI-resolve outcome, another
\* INVALID against a valid one.
CrossrefOverridesResolve ==
    /\ Len(results) = 2
    /\ HasDoi(1) /\ HasDoi(2)
    /\ Verification(1)["doi_crossref"].valid
    /\ ~Verification(1)["doi_resolve"].valid
    /\ StatusOf(1) = "VALID"
    /\ ~Verification(2)["doi_crossref"].valid
    /\ Verification(2)["doi_resolve"].valid
    /\ StatusOf(2) = "INVALID"

\* C2: a record with neither 'doi' nor 'arxiv' gets status NO_IDENTIFIER,
\* whatever other fields it carries.
NoIdentifierStatus ==
    \A i \in 1..Len(results) :
        ~HasDoi(i) /\ ~HasArxiv(i) => StatusOf(i) = "NO_IDENTIFIER"

\* C2's case: a record with title, year, journal and url but no identifier,
\* emitted after an INVALID one.
NoIdentifierWithOtherFields ==
    /\ Len(results) = 2
    /\ StatusOf(1) = "INVALID"
    /\ ~HasDoi(2) /\ ~HasArxiv(2)
    /\ { "title", "year", "journal", "url" } \subseteq DOMAIN references[2]
    /\ StatusOf(2) = "NO_IDENTIFIER"

\* C3: the arXiv outcome decides the status of a record with an arXiv id and
\* no DOI; with a DOI too, the status is the one Crossref dictates, whatever
\* the arXiv outcome is.
ArxivDecidesOnlyWithoutCrossref ==
    \A i \in 1..Len(results) :
        HasArxiv(i) =>
            /\ "arxiv" \in DOMAIN Verification(i)
            /\ ~HasDoi(i) => StatusOf(i) = ByValid(Verification(i)["arxiv"])
            /\ HasDoi(i) => StatusOf(i) = ByValid(Verification(i)["doi_crossref"])

\* C3's case: a valid arXiv outcome beside an invalid Crossref outcome, and an
\* arXiv-only record decided by its arXiv outcome.
ArxivDoesNotRescue ==
    /\ Len(results) = 2
    /\ HasDoi(1) /\ HasArxiv(1)
    /\ Verification(1)["arxiv"].valid
    /\ ~Verification(1)["doi_crossref"].valid
    /\ StatusOf(1) = "INVALID"
    /\ ~HasDoi(2) /\ HasArxiv(2)
    /\ Verification(2)["arxiv"].valid
    /\ StatusOf(2) = "VALID"

CheckEvents == { "doi_resolve", "doi_crossref", "arxiv" }

\* A check whose last request ended in a non-200 status or an exception is
\* recorded with valid = false, every emitted result holds an outcome for each
\* identifier of its record, and the returned list holds a result for every
\* record.
FailedChecksAreRecorded ==
    /\ pc \in { "crossref", "arxiv", "status", "raised" } =>
          \A k \in 1..Len(trace) :
              trace[k].ev \in CheckEvents =>
                  /\ trace[k].ev \in DOMAIN result["verification"]
                  /\ trace[k].last \in { "status", "exception" } =>
                        ~result["verification"][trace[k].ev].valid
    /\ \A i \in 1..Len(results) :
          /\ HasDoi(i) => { "doi_resolve", "doi_crossref" } \subseteq DOMAIN Verification(i)
          /\ HasArxiv(i) => "arxiv" \in DOMAIN Verification(i)
    /\ pc = "done" => Len(results) = Len(references)

\* C4: whatever the transport answers to the DOI-resolve, Crossref and arXiv
\* checks, a failing check is recorded with valid = false, the remaining
\* checks and records are processed, and verify_references returns a result
\* for every record without raising.
NoOutcomeAbortsTheBatch ==
    /\ FailedChecksAreRecorded
    /\ pc # "raised"

\* The events verify_references is to produce for record r.
Expected(r) ==
    << "progress", "log" >>
        \o (IF "doi" \in DOMAIN r
            THEN << "doi_resolve", "delay", "doi_crossref", "delay" >> ELSE << >>)
        \o (IF "arxiv" \in DOMAIN r THEN << "arxiv", "delay" >> ELSE << >>)
        \o << "status" >>

EventNames(t) == [k \in 1..Len(t) |-> t[k].ev]
IsPrefix(a, b) == Len(a) <= Len(b) /\ a = SubSeq(b, 1, Len(a))

\* The record the trace and the requests belong to.
Current == IF pc \in { "begin", "done" } THEN idx ELSE idx + 1

\* C5: the checks of a record run in the order DOI-resolve, Crossref, arXiv,
\* each at most once and only for a field that is present, and one pacing
\* delay follows each check that ran.
ChecksInOrderAndPaced ==
    Current >= 1 =>
        /\ IsPrefix(EventNames(trace), Expected(references[Current]))
        /\ pc \in { "begin", "done" } =>
              EventNames(trace) = Expected(references[Current])

\* C5's case: a record with both identifiers has been processed in full.
AllThreeChecksRan ==
    /\ pc = "done"
    /\ Len(references) = 2
    /\ EventNames(trace) = << "progress", "log", "doi_resolve", "delay", "doi_crossref",
                              "delay", "arxiv", "delay", "status" >>

\* C7: no network request is issued for a record with neither 'doi' nor
\* 'arxiv'.
NoRequestWithoutIdentifier ==
    Current >= 1 =>
        ("doi" \notin DOMAIN references[Current] /\ "arxiv" \notin DOMAIN references[Current]
            => requests = << >>)

\* C7's case: a record with other fields but no identifier has been processed
\* in second place, after a record whose DOI was looked up.
SecondRecordWithoutIdentifier ==
    /\ pc = "begin"
    /\ idx = 2
    /\ "doi_crossref" \in DOMAIN Verification(1)
    /\ ~HasDoi(2) /\ ~HasArxiv(2)
    /\ "url" \in DOMAIN references[2]
    /\ requests = << >>

\* C9: a record whose 'doi' is present but blank, and that has no arXiv id,
\* gets status NO_IDENTIFIER.
BlankDoiIsNoIdentifier ==
    \A i \in 1..Len(results) :
        HasDoi(i) /\ normalize_doi(references[i]["doi"]) = << >> /\ ~HasArxiv(i)
            => StatusOf(i) = "NO_IDENTIFIER"

\* ----------------------------------------------- claims on two runs

\* C10: verifying the same batch twice against a transport that answers each
\* request as before yields the same results, whatever user agents and delays
\* are drawn: the second run never raises, its results are at every moment a
\* prefix of the first run's, and equal to them when it returns.
SecondRunRepeatsFirst ==
    run = 2 =>
        /\ pc # "raised"
        /\ IsPrefix(results, first)
        /\ pc = "done" => results = first

\* C10's case: a second run that ended on another user agent and another
\* delay than the first run's, over a record without identifiers and a VALID
\* record with a metadata snapshot whose DOI did not resolve.
SameResultsOnOtherDraws ==
    /\ run = 2
    /\ pc = "done"
    /\ Len(results) = 2
    /\ StatusOf(1) = "NO_IDENTIFIER"
    /\ StatusOf(2) = "VALID"
    /\ HasArxiv(2)
    /\ "crossref" \in DOMAIN Verification(2)
    /\ ~Verification(2)["doi_resolve"].valid
    /\ Verification(2)["arxiv"].valid
    /\ results = first
    /\ drawn.ua # 1
    /\ drawn.d # DelayMin

\* ----------------------------------------------- claims on the clients

IsBlankDoi(arg) == arg = None \/ Strip(arg[1]) = << >>

\* C8: for a DOI that is null, empty or whitespace-only, verify_doi and
\* verify_doi_crossref return without issuing a request.
BlankDoiIssuesNoRequest ==
    (/\ ret # << >>
     /\ call.client \in { "verify_doi", "verify_doi_crossref" }
     /\ IsBlankDoi(call.arg))
        => ret[1].requests = << >>

\* ---------------------------------------------------------- parse_bib_file

\* Longest .bib file that is parsed and verified.
MaxEntries == 2

\* The DOI clean-up with the doi.org prefix removed only.
clean_doiOnePrefix(text) == Remove(Strip(text), HttpsDoiOrg)

\* doi_match.group(1).strip(), then the two str.replace calls.
clean_doi(text) == Remove(Remove(Strip(text), HttpsDoiOrg), HttpDxDoiOrg)

\* The fields parse_bib_file extracts from one entry: the key and, for each
\* field its pattern matched, the cleaned text.
parse_entry(e) ==
    ("type" :> e.type) @@ ("key" :> Strip(e.key))
        @@ [k \in DOMAIN e.fields |->
              CASE k = "doi" -> clean_doi(e.fields[k])
                [] k = "title" -> Take(Strip(e.fields[k]), 100)
                [] k = "journal" -> Take(Strip(e.fields[k]), 80)
                [] OTHER -> Strip(e.fields[k])]

\* The texts between the braces of a doi field ([^}]+: never empty).
RawDois ==
    { << "10.1000/xyz123" >>,
      << HttpsDoiOrg, "10.1000/xyz123" >>,
      << HttpDxDoiOrg, "10.1000/xyz123" >>,
      << Blank, HttpsDoiOrg, "10.1000/XYZ123", Blank >>,
      << HttpsDoiOrg >> }

\* The entries of a .bib file: with a doi field and a title, or a title alone.
Entries ==
    { [type |-> << "article" >>, key |-> << "ref" >>,
       fields |-> d @@ ("title" :> << Blank, "Foo" >>)] : d \in Optional("doi", RawDois) }

RECURSIVE BibFiles(_)
BibFiles(n) ==
    IF n = 0 THEN { << >> }
    ELSE LET shorter == BibFiles(n - 1)
         IN  shorter \cup { Append(b, e) : b \in { x \in shorter : Len(x) = n - 1 },
                                           e \in Entries }

InitBib ==
    /\ references = << >>
    /\ transport \in Transports
    /\ pc = "parse"
    /\ idx = 0
    /\ result = << >>
    /\ results = << >>
    /\ trace = << >>
    /\ requests = << >>
    /\ run = 1
    /\ first = << >>
    /\ answers = << >>
    /\ drawn = << >>
    /\ call = << >>
    /\ ret = << >>
    /\ args = NoOptions
    /\ alt = NotSearching
    /\ files \in { "bib_file" :> b : b \in BibFiles(MaxEntries) }
    /\ summary = << >>
    /\ enrich = NotEnriching
    /\ gui = NotRunning

\* parse_bib_file: one record per entry, in the file's order.
ParseBibFile ==
    /\ pc = "parse"
    /\ references' = [i \in 1..Len(files["bib_file"]) |-> parse_entry(files["bib_file"][i])]
    /\ pc' = "begin"
    /\ UNCHANGED << transport, idx, result, results, trace, requests,
                    run, first, answers, drawn, outside >>

NextBib ==
    \/ ParseBibFile
    \/ BeginRecord
    \/ CheckDoi(1, DelayMin, FALSE)
    \/ CheckCrossref(1, DelayMin, FALSE)
    \/ DeriveStatus
    \/ Return

SpecBib == InitBib /\ [][NextBib]_vars

\* ------------------------------------------- claims on the whole program

HasMetadata(r) == \E k \in { "title", "journal", "year" } : k \in DOMAIN r /\ r[k] # << >>

SearchesFor(i) == Cardinality({ k \in 1..Len(alt.searches) : alt.searches[k].of = i })

\* Alternative discovery was asked for and has ended, by returning or by
\* raising.
DiscoveryEnded ==
    /\ pc \in { "report", "exit", "report_raised", "alternatives_raised" }
    /\ args.search_alternatives

\* The three-record batch: a DOI Crossref confirmed, a DOI it answered 404
\* for, a record without identifiers.
EndToEndBatch ==
    /\ Len(results) = 3
    /\ HasDoi(1) /\ HasDoi(2) /\ ~HasDoi(3) /\ ~HasArxiv(3)
    /\ HasMetadata(references[2])
    /\ Verification(1)["doi_crossref"].valid
    /\ Verification(2)["doi_crossref"].message = << "DOI not found in Crossref (404)" >>

\* No result is searched for twice, and none that is not INVALID or has
\* neither title, journal nor year is searched for at all.
AtMostOneSearch ==
    \A i \in 1..Len(results) :
        /\ SearchesFor(i) <= 1
        /\ SearchesFor(i) = 1 => StatusOf(i) = "INVALID" /\ HasMetadata(results[i])

\* The three-record batch gets VALID, INVALID, NO_IDENTIFIER and one search.
EndToEndStatuses ==
    (DiscoveryEnded /\ EndToEndBatch) =>
        /\ << StatusOf(1), StatusOf(2), StatusOf(3) >> = << "VALID", "INVALID", "NO_IDENTIFIER" >>
        /\ Len(alt.searches) = 1

\* C6: the three-record batch yields VALID, INVALID, NO_IDENTIFIER, the
\* summary counts 1/1/1 and exactly one search; and when alternative
\* discovery has ended, every INVALID result with a title, journal or year
\* has been searched for exactly once and no other result at all.
OneSearchPerInvalidResult ==
    /\ EndToEndStatuses
    /\ (DiscoveryEnded /\ EndToEndBatch) =>
          /\ pc # "alternatives_raised"
          /\ pc = "exit" => summary = [total |-> 3, valid |-> 1, invalid |-> 1, no_id |-> 1]
    /\ DiscoveryEnded =>
          \A i \in 1..Len(results) :
              SearchesFor(i) = IF StatusOf(i) = "INVALID" /\ HasMetadata(results[i])
                               THEN 1 ELSE 0


\* What the last request of the returned call ended in.
LastAnswer ==
    IF call.client = "verify_doi"
    THEN ScriptAnswer(call.script, ret[1].requests[Len(ret[1].requests)])
    ELSE call.out

Answered == ret # << >> /\ ret[1].requests # << >>

NoResponse(out) == out.exc \in { "Timeout", "ConnectionError" }
NotFound(out) == out.exc = "none" /\ out.status = 404

\* What the client of the call returns for the same argument when its one
\* request is answered 404.
NotFoundOutcome ==
    LET out == Response(404, JNull)
    IN  CASE call.client = "verify_doi" ->
                 verify_doi(call.arg[1], 1, << HostScript(out, Unused), HostScript(Unused, Unused) >>)
          [] call.client = "verify_doi_crossref" -> verify_doi_crossref(call.arg[1], 1, out)
          [] OTHER -> verify_arxiv(call.arg[1], 1, out)

\* C11: a 404 response to the DOI-resolve call gives valid = false with
\* status code 404; and for each of the three clients a call that got no
\* response (timeout, connection failure) and a call that got a 404 both give
\* valid = false, with different messages.
NotFoundDiffersFromNoResponse ==
    Answered =>
        /\ NotFound(LastAnswer) =>
              /\ ~ret[1].valid
              /\ call.client = "verify_doi" => ret[1].status_code = 404
        /\ NoResponse(LastAnswer) =>
              /\ ~ret[1].valid
              /\ ~NotFoundOutcome.valid
              /\ ret[1].message # NotFoundOutcome.message

\* C11's case: the second resolver host answered 404 after the first gave
\* no conclusive answer.
NotFoundAtSecondHost ==
    /\ Answered
    /\ call.client = "verify_doi"
    /\ Len(ret[1].requests) = 2
    /\ NotFound(LastAnswer)
    /\ ret[1].status_code = 404
    /\ ret[1].message = << "DOI not found (404)" >>


\* The requests of the returned verify_doi call, and the answer to each.
Sent == ret[1].requests
AnswerTo(i) == ScriptAnswer(call.script, Sent[i])
Host(q) == q.url[1]
Conclusive(out) == out.exc = "none" /\ out.status \in { 200, 404 }
Forbidden(out) == out.exc = "none" /\ out.status = 403

\* The HEAD requests go to doi.org, then dx.doi.org; a conclusive HEAD ends
\* the check; a 403 on HEAD is followed by one GET on the same URL.
HostsInSequence ==
    (Answered /\ call.client = "verify_doi") =>
        /\ Sent[1].method = "HEAD" /\ Host(Sent[1]) = "https://doi.org/"
        /\ \A i \in 1..Len(Sent) :
              /\ Host(Sent[i]) = "https://dx.doi.org/" => i > 1
              /\ i > 1 => Host(Sent[i - 1]) = "https://doi.org/" \/ Sent[i].method = "GET"
              /\ Sent[i].method = "HEAD" /\ Conclusive(AnswerTo(i)) => i = Len(Sent)
              /\ Sent[i].method = "HEAD" /\ Forbidden(AnswerTo(i)) =>
                    /\ i < Len(Sent)
                    /\ Sent[i + 1] = [Sent[i] EXCEPT !.method = "GET"]
              /\ Sent[i].method = "GET" =>
                    /\ i > 1 /\ Sent[i - 1] = [Sent[i] EXCEPT !.method = "HEAD"]
                    /\ Forbidden(AnswerTo(i - 1))

\* C12: verify_doi tries doi.org then dx.doi.org and returns at the first
\* conclusive HEAD (200 or 404); a 403 on HEAD triggers exactly one GET on
\* that host, and when that GET is answered by another status than 200 the
\* check moves on to the next host before it gives up.
ForbiddenMovesOnToNextHost ==
    /\ HostsInSequence
    /\ (Answered /\ call.client = "verify_doi") =>
          \A i \in 1..Len(Sent) :
              (/\ Sent[i].method = "GET"
               /\ Host(Sent[i]) = "https://doi.org/"
               /\ AnswerTo(i).exc = "none"
               /\ AnswerTo(i).status # 200)
                  => /\ i < Len(Sent)
                     /\ Sent[i + 1].method = "HEAD"
                     /\ Host(Sent[i + 1]) = "https://dx.doi.org/"


Tokens(s) == { s[i] : i \in 1..Len(s) }

\* C13: a client whose last request was answered with a status that is neither
\* 2xx, 404 nor 403 returns that status code (verify_doi in status_code, the
\* other two in the message), and verify_doi returns status_code 0 only when
\* its last request obtained no response.
OtherStatusIsCarried ==
    Answered =>
        /\ (LastAnswer.exc = "none" /\ LastAnswer.status \notin { 200, 403, 404 }) =>
              IF call.client = "verify_doi"
              THEN ret[1].status_code = LastAnswer.status
              ELSE ToString(LastAnswer.status) \in Tokens(ret[1].message)
        /\ (call.client = "verify_doi" /\ ret[1].status_code = 0) =>
              LastAnswer.exc # "none"


\* C14: the extraction helpers return without raising on a missing, null or
\* wrongly typed entry, so verify_references never stops at a record whose
\* Crossref outcome is valid: the snapshot is stored and the batch goes on
\* until every record has its result.
ExtractionHelpersNeverRaise ==
    /\ ~(/\ pc = "raised"
         /\ "doi_crossref" \in DOMAIN result.verification
         /\ result.verification.doi_crossref.valid
         /\ "crossref" \notin DOMAIN result.verification)
    /\ pc = "done" => Len(results) = Len(references)


\* C15: a Crossref lookup answered with 200 is valid whatever the body is:
\* malformed JSON, a body without the message envelope or a message without
\* the expected fields only leave the metadata out.
CrossrefOkIsValidWhateverTheBody ==
    (/\ Answered
     /\ call.client = "verify_doi_crossref"
     /\ call.out.exc = "none"
     /\ call.out.status = 200) =>
        /\ ret[1].valid
        /\ ret[1].message = << "Valid (Crossref)" >>
        /\ ret[1].meta = IF call.out.body.t = "dict"
                         THEN Get(call.out.body, "message", EmptyDict)
                         ELSE EmptyDict


\* C16: between any two bibliographic searches of one Alternative Discovery
\* pass there is a pacing delay, whether the earlier search returned
\* candidates, returned none or failed.
EverySearchIsPaced ==
    \A i, j \in 1..Len(alt.trace) :
        (i < j /\ alt.trace[i].ev = "search" /\ alt.trace[j].ev = "search") =>
            \E k \in (i + 1)..(j - 1) : alt.trace[k].ev = "delay"


CandidateBlocks ==
    Cardinality({ k \in 1..Len(alt.bib_lines) :
                    /\ alt.bib_lines[k] # << >>
                    /\ alt.bib_lines[k][1] = "% Original (INVALID): " })

\* C17: an INVALID result with no title, no journal and no year is skipped:
\* no search is issued for it, no candidate lines are produced for it (the
\* candidate blocks are those of the searches that found candidates), and
\* the pass does not stop at it (it only ever stops after a search).
NoSearchWithoutMetadata ==
    /\ \A k \in 1..Len(alt.refs) :
          LET at == alt.refs[k]
          IN  ~HasMetadata(results[at]) =>
                 /\ SearchesFor(at) = 0
                 /\ \A e \in 1..Len(alt.trace) :
                        alt.trace[e].of = at => alt.trace[e].ev = "skip"
                 /\ k <= alt.i => \E e \in 1..Len(alt.trace) :
                                      alt.trace[e] = AltEvent("skip", at)
    /\ CandidateBlocks =
          Cardinality({ e \in 1..Len(alt.trace) : alt.trace[e].ev = "delay" })
    /\ pc = "alternatives_raised" => alt.trace[Len(alt.trace)].ev = "search"

\* A result without metadata was skipped, the next one searched for, and the
\* pass returned.
SkippedThenSearched ==
    /\ pc \in { "report", "exit" }
    /\ Len(alt.trace) >= 2
    /\ alt.trace[1].ev = "skip"
    /\ ~HasMetadata(results[alt.trace[1].of])
    /\ alt.trace[2].ev = "search"
    /\ "alternatives_output" \in DOMAIN files


CanonicalDoi == << "10.1000/xyz123" >>

ThreeForms ==
    { CanonicalDoi, << HttpsDoiOrg >> \o CanonicalDoi, << HttpDxDoiOrg >> \o CanonicalDoi }

RawDoi(i) == files["bib_file"][i].fields["doi"]

GivenInThreeForms(i) ==
    /\ "doi" \in DOMAIN files["bib_file"][i].fields
    /\ RawDoi(i) \in ThreeForms

\* C18: an entry whose doi field is https://doi.org/10.1000/xyz123,
\* http://dx.doi.org/10.1000/xyz123 or 10.1000/xyz123 is parsed to the DOI
\* 10.1000/xyz123, every request made for it is a resolver request or a
\* Crossref lookup for exactly that DOI, and once its checks are over both
\* have been issued.
ThreeFormsOneCanonicalDoi ==
    /\ pc # "parse" =>
          \A i \in 1..Len(references) :
              GivenInThreeForms(i) => references[i]["doi"] = CanonicalDoi
    /\ (pc \in { "doi", "crossref", "status" } /\ GivenInThreeForms(idx + 1)) =>
          /\ \A k \in 1..Len(requests) :
                requests[k].url \in { << "https://doi.org/" >> \o CanonicalDoi,
                                      << "https://dx.doi.org/" >> \o CanonicalDoi,
                                      crossref_base_url \o << "/" >> \o CanonicalDoi }
          /\ pc = "status" =>
                /\ requests[1] = Req("HEAD", << "https://doi.org/" >> \o CanonicalDoi, << >>)
                /\ requests[Len(requests)] =
                       Req("GET", crossref_base_url \o << "/" >> \o CanonicalDoi, << >>)

\* Both checks were made for a record given with the dx.doi.org prefix,
\* after one given with the doi.org prefix.
BothPrefixedFormsChecked ==
    /\ pc = "status"
    /\ idx = 1
    /\ GivenInThreeForms(1) /\ RawDoi(1) = << HttpsDoiOrg >> \o CanonicalDoi
    /\ GivenInThreeForms(2) /\ RawDoi(2) = << HttpDxDoiOrg >> \o CanonicalDoi
    /\ Len(requests) >= 2
    /\ results[1]["doi"] = result["doi"]


\* ------------------------------------------------------- the abstract pass

\* Longest batch the abstract pass is run on.
MaxEnrich == 2

\* What the browser collaborator can come to: Playwright cannot be imported,
\* the browser raises, the page holds no abstract, the page holds one.
BrowserOutcomes == { "absent", "error", "not_found", "found" }

PageAbstract == << "An", Blank, "abstract" >>

\* fetch_abstract_via_browser: (False, "") unless an abstract was found.
fetch_abstract_via_browser(url, outcome) ==
    IF url = << >> THEN [ok |-> FALSE, abstract |-> << >>]
    ELSE IF outcome = "found" THEN [ok |-> TRUE, abstract |-> PageAbstract]
    ELSE [ok |-> FALSE, abstract |-> << >>]

\* target_url with the record's url tried first.
TargetUrlPrefersUrl(r) ==
    LET doi == Remove(Strip(FieldOr(r, "doi", << >>)), HttpsDoiOrg)
    IN  IF FieldOr(r, "url", << >>) # << >> THEN << r["url"] >>
        ELSE IF doi # << >> THEN << << HttpsDoiOrg >> \o doi >>
        ELSE << >>

\* target_url: https://doi.org/<doi> when the DOI is not empty once stripped,
\* else the record's url, else None (the empty sequence).
TargetUrl(r) ==
    LET doi == Remove(Strip(FieldOr(r, "doi", << >>)), HttpsDoiOrg)
    IN  IF doi # << >> THEN << << HttpsDoiOrg >> \o doi >>
        ELSE IF FieldOr(r, "url", << >>) # << >> THEN << r["url"] >>
        ELSE << >>

\* r['abstract'] = abstract, with the status set as well.
WithAbstractRevalidated(r, abstract) ==
    ("abstract" :> abstract) @@ ("status" :> "VALID") @@ r

\* r['abstract'] = abstract
WithAbstract(r, abstract) == ("abstract" :> abstract) @@ r

EnrichEvent(ev, at) == [ev |-> ev, of |-> at]

\* One turn of the abstract loop of main and of the GUI worker.
EnrichResult ==
    /\ pc = "done"
    /\ args.fetch_abstract
    /\ enrich.i < Len(results)
    /\ LET at == enrich.i + 1
           r == results[at]
           target_url == TargetUrl(r)
       IN  IF FieldOr(r, "abstract", << >>) # << >>
           THEN /\ enrich' = [enrich EXCEPT !.i = at]
                /\ results' = results
           ELSE IF args.use_browser /\ target_url # << >>
           THEN \E outcome \in BrowserOutcomes :
                  LET b == fetch_abstract_via_browser(target_url[1], outcome)
                  IN  /\ results' = IF b.ok /\ b.abstract # << >>
                                    THEN [results EXCEPT ![at] = WithAbstract(r, b.abstract)]
                                    ELSE results
                      /\ enrich' = [i |-> at,
                                    calls |-> Append(enrich.calls,
                                                     [of |-> at, url |-> target_url[1],
                                                      passed |-> r, outcome |-> outcome]),
                                    trace |-> enrich.trace \o << EnrichEvent("browser", at),
                                                                 EnrichEvent("delay", at) >>]
           ELSE /\ enrich' = [enrich EXCEPT !.i = at,
                                            !.trace = Append(@, EnrichEvent("delay", at))]
                /\ results' = results
    /\ UNCHANGED << references, transport, pc, idx, result, trace, requests,
                    run, first, answers, drawn, call, ret, args, alt, files, summary, gui >>

\* The loop is over.
EndEnrichment ==
    /\ pc = "done"
    /\ args.fetch_abstract
    /\ enrich.i = Len(results)
    /\ pc' = "enriched"
    /\ UNCHANGED << references, transport, idx, result, results, trace, requests,
                    run, first, answers, drawn, call, ret, program >>

\* Its records: a DOI with a title and a url, a url without a DOI, a title
\* alone, and a url with a DOI that is empty or blank.
EnrichReferences ==
    { Reference("doi" :> << "10.1000/xyz123" >>, << >>, { "title", "url" }),
      Reference(<< >>, << >>, { "title", "url" }),
      Reference(<< >>, << >>, { "title" }),
      Reference("doi" :> << >>, << >>, { "url" }),
      Reference("doi" :> << Blank >>, << >>, { "url" }) }

EnrichTransports == { { Ok, Response(404, JNull) } }

RECURSIVE EnrichBatches(_)
EnrichBatches(n) ==
    IF n = 0 THEN { << >> }
    ELSE LET shorter == EnrichBatches(n - 1)
         IN  shorter \cup { Append(b, r) : b \in { x \in shorter : Len(x) = n - 1 },
                                           r \in EnrichReferences }

InitEnrich == Start(EnrichBatches(MaxEnrich), EnrichTransports, Options)

NextEnrich ==
    \/ BeginRecord
    \/ CheckDoi(1, DelayMin, FALSE)
    \/ CheckCrossref(1, DelayMin, FALSE)
    \/ DeriveStatus
    \/ Return
    \/ SkipEnrichment
    \/ EnrichResult
    \/ EndEnrichment
    \/ SkipAlternatives
    \/ SearchAlternatives
    \/ SearchFor(1, DelayMin)
    \/ SaveAlternatives
    \/ GenerateReport

SpecEnrich == InitEnrich /\ [][NextEnrich]_vars


\* A result without its abstract.
Frozen(r) == [k \in DOMAIN r \ { "abstract" } |-> r[k]]

\* C19: once a result is emitted, no later step (the rest of the
\* verification, the abstract pass whatever the browser comes to, the
\* alternatives, the report) changes or removes it, except that the abstract
\* pass with the browser enabled may give a result without an abstract its
\* abstract: status, verification outcomes and every other field stay.
EmittedResultsStayAsEmitted ==
    [][/\ Len(results') >= Len(results)
       /\ \A i \in 1..Len(results) :
             /\ Frozen(results'[i]) = Frozen(results[i])
             /\ FieldOr(results[i], "abstract", << >>) # << >> => results'[i] = results[i]
             /\ results'[i] # results[i] =>
                   /\ pc = "done" /\ args.fetch_abstract /\ args.use_browser
                   /\ i = enrich.i + 1]_vars

\* The run ended after the browser gave an INVALID result its abstract, came
\* to nothing for another result, and the alternatives were searched.
AbstractAddedToInvalidResult ==
    /\ pc = "exit"
    /\ args.search_alternatives
    /\ Len(results) = 2
    /\ Len(enrich.calls) = 2
    /\ enrich.calls[1].outcome = "found"
    /\ enrich.calls[2].outcome \in { "absent", "error" }
    /\ results[1]["status"] = "INVALID"
    /\ results[1] = WithAbstract(enrich.calls[1].passed, PageAbstract)
    /\ results[2] = enrich.calls[2].passed
    /\ alt.searches # << >>

\* C20: the browser is called for a result only when abstracts are asked
\* for, the browser is enabled and the result has no abstract, at most once
\* per result, with https://doi.org/<doi> when the result's DOI is not empty
\* (blank counts as empty) and else with the record's url, which is then not
\* empty: a result with neither causes no call.
BrowserCalledOnlyWhenNeeded ==
    \A k \in 1..Len(enrich.calls) :
        LET c == enrich.calls[k]
            r == c.passed
            doi == Strip(FieldOr(r, "doi", << >>))
        IN  /\ args.fetch_abstract /\ args.use_browser
            /\ FieldOr(r, "abstract", << >>) = << >>
            /\ Frozen(r) = Frozen(results[c.of])
            /\ \A j \in 1..Len(enrich.calls) : j # k => enrich.calls[j].of # c.of
            /\ IF doi # << >>
               THEN c.url = << HttpsDoiOrg >> \o doi
               ELSE /\ "url" \in DOMAIN r
                    /\ r["url"] # << >>
                    /\ c.url = r["url"]

\* The browser was called with the DOI's URL for a record that also has a
\* url, and with the url of a record whose DOI is blank.
DoiUrlThenRawUrl ==
    /\ Len(enrich.calls) = 2
    /\ "url" \in DOMAIN enrich.calls[1].passed
    /\ enrich.calls[1].url = << HttpsDoiOrg, "10.1000/xyz123" >>
    /\ FieldOr(enrich.calls[2].passed, "doi", << >>) = << Blank >>
    /\ enrich.calls[2].url = enrich.calls[2].passed["url"]
    /\ enrich.i = 2


\* ------------------------------------------------------ the shared session

\* Retry(total=3, status_forcelist=[429, 500, 502, 503, 504],
\*       allowed_methods=["HEAD", "GET"]) mounted on the session.
RetryTotal == 3
status_forcelist == { 429, 500, 502, 503, 504 }
allowed_methods == { "HEAD", "GET" }

\* is_retry with every status from 400 on forced.
is_retryOnAnyError(method, out) ==
    \/ out.exc # "none"
    \/ method \in allowed_methods /\ out.status >= 400

\* Whether the adapter makes another attempt after this one: the attempt
\* raised a connection or read error, or was answered with a forced status
\* to an allowed method.
is_retry(method, out) ==
    \/ out.exc # "none"
    \/ method \in allowed_methods /\ out.status \in status_forcelist

\* What one attempt can come to.
AttemptAnswers ==
    { Response(c, JNull) : c \in { 200, 403, 404, 410 } \cup status_forcelist }
        \cup { Raises(e) : e \in { "Timeout", "ConnectionError" } }

\* The calls the clients make on the session: session.head and session.get.
SessionCalls ==
    { [client |-> "session", method |-> m, url |-> u] :
        m \in { "HEAD", "GET" },
        u \in { << "https://doi.org/", "10.1000/xyz123" >>,
                crossref_base_url \o << "/", "10.1000/xyz123" >> } }

InitSession ==
    /\ references = << >>
    /\ transport = { }
    /\ pc = "send"
    /\ idx = 0
    /\ result = << >>
    /\ results = << >>
    /\ trace = << >>
    /\ requests = << >>
    /\ run = 1
    /\ first = << >>
    /\ answers = << >>
    /\ drawn = << >>
    /\ call \in SessionCalls
    /\ ret = << >>
    /\ args = NoOptions
    /\ alt = NotSearching
    /\ files = << >>
    /\ summary = << >>
    /\ enrich = NotEnriching
    /\ gui = NotRunning

\* One attempt of the adapter: the request goes out and is answered; the
\* retry counter decides between another attempt, the response, and the
\* error raised once the retries are used up.
Attempt ==
    /\ pc = "send"
    /\ \E out \in AttemptAnswers :
         /\ requests' = Append(requests, Req(call.method, call.url, << >>))
         /\ trace' = Append(trace, out)
         /\ IF is_retry(call.method, out)
            THEN IF Len(trace) < RetryTotal
                 THEN /\ pc' = "send"
                      /\ ret' = ret
                 ELSE /\ pc' = "returned"
                      /\ ret' = << IF out.exc # "none" THEN out ELSE Raises("RetryError") >>
            ELSE /\ pc' = "returned"
                 /\ ret' = << out >>
    /\ UNCHANGED << references, transport, idx, result, results, run, first, answers,
                    drawn, call, program >>

NextSession == Attempt

SpecSession == InitSession /\ [][NextSession]_vars

ProgressOnceAndFirst ==
    IF Current = 0 THEN trace = << >> /\ requests = << >>
    ELSE /\ trace # << >>
         /\ trace[1] = [ev |-> "progress", last |-> "none",
                        args |-> << Current, Len(references),
                                    IF "key" \in DOMAIN references[Current]
                                    THEN references[Current]["key"] ELSE << "Unknown" >> >>]
         /\ \A k \in 2..Len(trace) : trace[k].ev # "progress"
         /\ requests # << >> => \E k \in 2..Len(trace) : trace[k].ev \in CheckEvents
         /\ Len(results) \in { Current - 1, Current }
         /\ \A i \in 1..Len(results) : "status" \in DOMAIN results[i]

\* The second record of two is being checked after its progress call.
SecondRecordAnnounced ==
    /\ pc = "status"
    /\ idx = 1
    /\ Len(references) = 2
    /\ trace[1].args = << 2, 2, << "ref" >> >>
    /\ requests # << >>
    /\ Len(results) = 1


\* ------------------------------------- the candidate helpers, called alone

DateParts(y) == JDict("date-parts" :> JList(<< JList(<< JNum(y) >>) >>))

\* The authors of a candidate: none, one with both names, one without a
\* family name, one with a family name only, and a list that mixes them.
AuthorLists ==
    { JList(<< >>),
      JList(<< JDict(("given" :> JStr(<< "A" >>)) @@ ("family" :> JStr(<< "Bee" >>))) >>),
      JList(<< JDict("given" :> JStr(<< "C" >>)) >>),
      JList(<< JDict("family" :> JStr(<< "Dee" >>)) >>),
      JList(<< JDict(("given" :> JStr(<< "A" >>)) @@ ("family" :> JStr(<< "Bee" >>))),
               JDict("given" :> JStr(<< "C" >>)),
               JDict("family" :> JStr(<< "Dee" >>)) >>) }

\* The date fields of a candidate: none, issued, published-print before
\* issued, a published-print that is null.
CandidateDates ==
    { << >>,
      "issued" :> DateParts(2020),
      ("published-print" :> DateParts(2019)) @@ ("issued" :> DateParts(2020)),
      "published-print" :> JNull }

\* The candidates crossref_to_bibtex is called on: every field present or
\* not, independently of the others.
Candidates ==
    { JDict(t @@ a @@ j @@ d @@ v @@ n @@ p @@ i @@ u) :
        t \in Optional("title", { JList(<< JStr(<< "Foo" >>) >>), JList(<< >>) }),
        a \in Optional("author", AuthorLists),
        j \in Optional("container-title", { JList(<< JStr(<< "Bar" >>) >>) }),
        d \in CandidateDates,
        v \in Optional("volume", { JStr(<< "7" >>) }),
        n \in Optional("issue", { JStr(<< "2" >>) }),
        p \in Optional("page", { JStr(<< "1-9" >>) }),
        i \in Optional("DOI", { JStr(<< "10.1/x" >>) }),
        u \in Optional("URL", { JStr(<< "https://doi.org/10.1/x" >>) }) }

\* What a date field of a message can hold.
DateEntries(y) ==
    { JNull, EmptyDict, DateParts(y),
      JDict("date-parts" :> JList(<< >>)),
      JDict("date-parts" :> JList(<< JList(<< >>) >>)),
      JDict("date-parts" :> JNull) }

\* The messages _extract_crossref_year is called on.
DatedMessages ==
    { JDict(p @@ o @@ i) :
        p \in Optional("published-print", DateEntries(2018)),
        o \in Optional("published-online", DateEntries(2019)),
        i \in Optional("issued", DateEntries(2020)) }

HelperCalls ==
    { [client |-> "crossref_to_bibtex", message |-> m, original_key |-> k] :
          m \in Candidates, k \in { << >>, << "ref", "_alt", "1" >> } }
        \cup { [client |-> "_extract_crossref_year", message |-> m] : m \in DatedMessages }

InitHelpers ==
    /\ references = << >>
    /\ transport = { }
    /\ pc = "helper"
    /\ idx = 0
    /\ result = << >>
    /\ results = << >>
    /\ trace = << >>
    /\ requests = << >>
    /\ run = 1
    /\ first = << >>
    /\ answers = << >>
    /\ drawn = << >>
    /\ call \in HelperCalls
    /\ ret = << >>
    /\ args = NoOptions
    /\ alt = NotSearching
    /\ files = << >>
    /\ summary = << >>
    /\ enrich = NotEnriching
    /\ gui = NotRunning

CallCrossrefToBibtex ==
    /\ call.client = "crossref_to_bibtex"
    /\ ret = << >>
    /\ ret' = << crossref_to_bibtex(call.message, call.original_key) >>
    /\ UNCHANGED << pipeline, call, program >>

CallExtractCrossrefYear ==
    /\ call.client = "_extract_crossref_year"
    /\ ret = << >>
    /\ ret' = << extract_crossref_year(call.message) >>
    /\ UNCHANGED << pipeline, call, program >>

NextHelpers ==
    \/ CallCrossrefToBibtex
    \/ CallExtractCrossrefYear

SpecHelpers == InitHelpers /\ [][NextHelpers]_vars


\* The lines of a text: the runs of tokens between newlines.
RECURSIVE LinesFrom(_, _)
LinesFrom(text, line) ==
    IF text = << >> THEN << line >>
    ELSE IF Head(text) = "\n" THEN << line >> \o LinesFrom(Tail(text), << >>)
    ELSE LinesFrom(Tail(text), Append(line, Head(text)))

EntryLines == LinesFrom(ret[1].val, << >>)

\* The entry holds a line for the field.
Emitted(name) ==
    \E k \in 1..Len(EntryLines) :
        /\ Len(EntryLines[k]) >= 3
        /\ SubSeq(EntryLines[k], 1, 3) = << "  ", name, " = {" >>

HasText(m, k) == k \in DOMAIN m.v /\ m.v[k].t = "str" /\ m.v[k].v # << >>
HasFirst(m, k) == k \in DOMAIN m.v /\ m.v[k].t = "list" /\ m.v[k].v # << >>

HasYear(m) ==
    \E k \in { "published-print", "published-online", "issued" } :
        /\ k \in DOMAIN m.v
        /\ m.v[k].t = "dict"
        /\ "date-parts" \in DOMAIN m.v[k].v
        /\ m.v[k].v["date-parts"].t = "list"
        /\ m.v[k].v["date-parts"].v # << >>
        /\ m.v[k].v["date-parts"].v[1].t = "list"
        /\ m.v[k].v["date-parts"].v[1].v # << >>

HasFamily(a) == "family" \in DOMAIN a.v /\ a.v["family"].v # << >>

\* The candidate carries a value for the field of the entry.
Carries(m, name) ==
    CASE name = "title" -> HasFirst(m, "title")
      [] name = "author" -> /\ HasFirst(m, "author")
                            /\ \E i \in 1..Len(m.v["author"].v) : HasFamily(m.v["author"].v[i])
      [] name = "journal" -> HasFirst(m, "container-title")
      [] name = "year" -> HasYear(m)
      [] name = "volume" -> HasText(m, "volume")
      [] name = "number" -> HasText(m, "issue")
      [] name = "pages" -> HasText(m, "page")
      [] name = "doi" -> HasText(m, "DOI")
      [] name = "url" -> HasText(m, "URL")

EntryFields ==
    { "title", "author", "journal", "year", "volume", "number", "pages", "doi", "url" }

EntryGenerated ==
    /\ call.client = "crossref_to_bibtex"
    /\ ret # << >>
    /\ ~ret[1].raised

\* Every field but the year is emitted exactly when the candidate carries it.
OtherFieldsEmittedIffCarried ==
    EntryGenerated =>
        \A name \in EntryFields \ { "year" } : Emitted(name) <=> Carries(call.message, name)

\* C23: the entry crossref_to_bibtex generates holds a line for title,
\* author, journal, year, volume, number, pages, doi, url exactly when the
\* candidate carries a value for that field; a candidate without a year in
\* any date field gets no year line.
FieldsEmittedIffCarried ==
    EntryGenerated =>
        \A name \in EntryFields : Emitted(name) <=> Carries(call.message, name)


\* "given family", or the family name alone for an author without a given name.
DisplayName(a) ==
    IF "given" \in DOMAIN a.v /\ a.v["given"].v # << >>
    THEN a.v["given"].v \o << Blank >> \o a.v["family"].v
    ELSE a.v["family"].v

\* The names of the authors that have a family name, in the candidate's
\* order, with " and " between them.
RECURSIVE DisplayNames(_)
DisplayNames(authors) ==
    IF authors = << >> THEN << >>
    ELSE LET rest == DisplayNames(Tail(authors))
         IN  IF ~HasFamily(Head(authors)) THEN rest
             ELSE IF rest = << >> THEN DisplayName(Head(authors))
             ELSE DisplayName(Head(authors)) \o << " and " >> \o rest

HasLine(line) == \E k \in 1..Len(EntryLines) : EntryLines[k] = line

FooMessage ==
    JDict(("title" :> JList(<< JStr(<< "Foo" >>) >>))
          @@ ("author" :> JList(<< JDict(("given" :> JStr(<< "A" >>))
                                         @@ ("family" :> JStr(<< "Bee" >>))) >>))
          @@ ("issued" :> JDict("date-parts" :> JList(<< JList(<< JNum(2020) >>) >>)))
          @@ ("DOI" :> JStr(<< "10.1/x" >>)))

\* C24: the entry generated for the message with title ["Foo"], author
\* A Bee, issued 2020 and DOI 10.1/x holds title = {Foo}, author = {A Bee},
\* year = {2020} and doi = {10.1/x}; and any generated entry holds one author
\* line with the "given family" names of the authors that have a family
\* name, in order, joined by " and ", or no author line when there is none.
AuthorsWithFamilyNameListed ==
    EntryGenerated =>
        /\ call.message = FooMessage =>
              /\ HasLine(<< "  ", "title", " = {", "Foo", "}," >>)
              /\ HasLine(<< "  ", "author", " = {", "A", Blank, "Bee", "}," >>)
              /\ HasLine(<< "  ", "year", " = {", "2020", "}," >>)
              /\ HasLine(<< "  ", "doi", " = {", "10.1/x", "}," >>)
        /\ LET authors == IF "author" \in DOMAIN call.message.v
                          THEN call.message.v["author"].v ELSE << >>
               names == DisplayNames(authors)
           IN  IF names = << >> THEN ~Emitted("author")
               ELSE /\ HasLine(<< "  ", "author", " = {" >> \o names \o << "}," >>)
                    /\ Cardinality({ k \in 1..Len(EntryLines) :
                                       /\ Len(EntryLines[k]) >= 2
                                       /\ EntryLines[k][2] = "author" }) = 1

\* The entry of the Foo message has been generated.
FooEntryGenerated ==
    /\ EntryGenerated
    /\ call.message = FooMessage
    /\ call.original_key = << >>
    /\ EntryLines[1] = << "@", "article", "{", "Bee", "2020", "Foo", "," >>

\* The entry of a candidate whose second author has no family name.
MixedAuthorsEntryGenerated ==
    /\ EntryGenerated
    /\ "author" \in DOMAIN call.message.v
    /\ Len(call.message.v["author"].v) = 3
    /\ HasLine(<< "  ", "author", " = {", "A", Blank, "Bee", " and ", "Dee", "}," >>)


\* The date field k of the message has a date-parts list with a first part
\* that is not empty.
Dated(m, k) ==
    /\ k \in DOMAIN m.v
    /\ m.v[k].t = "dict"
    /\ "date-parts" \in DOMAIN m.v[k].v
    /\ m.v[k].v["date-parts"].t = "list"
    /\ m.v[k].v["date-parts"].v # << >>
    /\ m.v[k].v["date-parts"].v[1].t = "list"
    /\ m.v[k].v["date-parts"].v[1].v # << >>

FirstYear(m, k) == << ToString(m.v[k].v["date-parts"].v[1].v[1].v) >>

\* The year of the first dated field in the order published-print,
\* published-online, issued; the empty text when none is dated.
PriorityYear(m) ==
    IF Dated(m, "published-print") THEN FirstYear(m, "published-print")
    ELSE IF Dated(m, "published-online") THEN FirstYear(m, "published-online")
    ELSE IF Dated(m, "issued") THEN FirstYear(m, "issued")
    ELSE << >>

YearReturned == call.client = "_extract_crossref_year" /\ ret # << >>

\* On a message whose date fields, where present, are objects, the helper
\* returns the year of the first dated field, or the empty text.
PriorityYearOfObjects ==
    (/\ YearReturned
     /\ \A k \in DOMAIN call.message.v : call.message.v[k].t = "dict") =>
        ret[1] = Returned(PriorityYear(call.message))

\* C29: _extract_crossref_year returns the year of the first of
\* published-print, published-online, issued that has a non-empty date-parts
\* list, and the empty text when none of them has one.
YearOfFirstDatedField ==
    YearReturned => ret[1] = Returned(PriorityYear(call.message))


\* ---------------------------------------------------------------- the GUI

\* Most notifications the worker threads of one session emit.
MaxNotes == 4

\* queue.Queue() with room for one item only.
QueueHasRoomForOne(q) == Len(q) < 1

\* queue.Queue(): maxsize 0, put never waits for room.
QueueHasRoom(q) == TRUE

\* An item of the queue, with the run whose worker put it.
Note(kind, payload, w) == [kind |-> kind, payload |-> payload, run |-> w]

\* run_clicked starting a worker whatever state['running'] is.
StartsAlways(running) == TRUE

\* if state['running']: return
Starts(running) == ~running

\* on_tick resetting state['running'] on 'done' only.
ResetsOnDone(kind) == kind = "done"

\* The kinds on which on_tick sets state['running'] = False and enables the
\* controls again.
Resets(kind) == kind \in { "done", "error" }

InitGui ==
    /\ references = << >>
    /\ transport = { }
    /\ pc = "gui"
    /\ idx = 0
    /\ result = << >>
    /\ results = << >>
    /\ trace = << >>
    /\ requests = << >>
    /\ run = 1
    /\ first = << >>
    /\ answers = << >>
    /\ drawn = << >>
    /\ call = << >>
    /\ ret = << >>
    /\ args = NoOptions
    /\ alt = NotSearching
    /\ files = << >>
    /\ summary = << >>
    /\ enrich = NotEnriching
    /\ gui = NotRunning

rest == << references, transport, pc, idx, result, results, trace, requests, run,
           first, answers, drawn, call, ret, args, alt, files, summary, enrich >>

\* run_clicked, a callback of the UI loop: it returns when a run is under
\* way or the inputs are not valid, else it sets state['running'] and
\* starts the worker thread of a new run.
RunClicked ==
    /\ gui.ui = "idle"
    /\ Len(gui.emitted) < MaxNotes
    /\ \E ok \in BOOLEAN :
         gui' = IF Starts(gui.running) /\ ok
                THEN [gui EXCEPT !.running = TRUE,
                                 !.runs = @ + 1,
                                 !.workers = @ \cup { gui.runs + 1 }]
                ELSE gui
    /\ UNCHANGED rest

\* q.put(('log', msg)) and q.put(('progress', ...)) of worker_run and of its
\* callbacks: the item goes to the end of the queue.
WorkerPut ==
    /\ Len(gui.emitted) + 1 < MaxNotes
    /\ QueueHasRoom(gui.queue)
    /\ \E w \in gui.workers : \E kind \in { "log", "progress" } :
         LET note == Note(kind, Len(gui.emitted) + 1, w)
         IN  gui' = [gui EXCEPT !.queue = Append(@, note), !.emitted = Append(@, note)]
    /\ UNCHANGED rest

\* q.put(('done', 'Done')) or q.put(('error', str(e))): the thread ends.
WorkerEnd ==
    /\ Len(gui.emitted) < MaxNotes
    /\ QueueHasRoom(gui.queue)
    /\ \E w \in gui.workers : \E kind \in { "done", "error" } :
         LET note == Note(kind, Len(gui.emitted) + 1, w)
         IN  gui' = [gui EXCEPT !.queue = Append(@, note), !.emitted = Append(@, note),
                                !.workers = @ \ { w }]
    /\ UNCHANGED rest

\* root.after(150, on_tick) fires: on_tick enters its loop.
Tick ==
    /\ gui.ui = "idle"
    /\ gui' = [gui EXCEPT !.ui = "draining"]
    /\ UNCHANGED rest

\* One q.get_nowait() of on_tick: the head of the queue is handled ('done'
\* and 'error' reset state['running']), or queue.Empty ends the tick.
GetNowait ==
    /\ gui.ui = "draining"
    /\ IF gui.queue = << >>
       THEN gui' = [gui EXCEPT !.ui = "idle"]
       ELSE LET note == Head(gui.queue)
            IN  gui' = [gui EXCEPT
                          !.queue = Tail(@),
                          !.delivered = Append(@, note),
                          !.running = IF Resets(note.kind) THEN FALSE ELSE @]
    /\ UNCHANGED rest

NextGui ==
    \/ RunClicked
    \/ WorkerPut
    \/ WorkerEnd
    \/ Tick
    \/ GetNowait

SpecGui == InitGui /\ [][NextGui]_vars

\* C25: a notification of the worker never waits for the UI loop: whatever
\* the queue holds, the worker's next put can be taken; and the UI loop
\* delivers the notifications in the order the worker emitted them, none
\* lost, none twice: what was delivered, followed by what is queued, is what
\* was emitted.
NotificationsNeverBlock ==
    /\ gui.workers # { } =>
          /\ ENABLED WorkerEnd
          /\ Len(gui.emitted) + 1 < MaxNotes => ENABLED WorkerPut
    /\ gui.delivered \o gui.queue = gui.emitted
    /\ \A k \in 1..Len(gui.emitted) : gui.emitted[k].payload = k

\* The worker has emitted four notifications and ended while the UI loop
\* has delivered the first of them only: three wait in the queue.
QueuedWhileUiIdle ==
    /\ Len(gui.queue) = 3
    /\ Len(gui.delivered) = 1
    /\ gui.workers = { }
    /\ gui.running
    /\ gui.queue[3].kind = "done"


\* Every emitted result holds the fields of its record with their values,
\* the verification outcomes and the status, and beside them at most an
\* abstract; a returned list holds one result per record.
OneResultPerRecord ==
    /\ Len(results) <= Len(references)
    /\ \A i \in 1..Len(results) :
          /\ \A k \in DOMAIN references[i] :
                k \in DOMAIN results[i] /\ results[i][k] = references[i][k]
          /\ { "verification", "status" } \subseteq DOMAIN results[i]
          /\ DOMAIN results[i] \subseteq
                 DOMAIN references[i] \cup { "verification", "status", "abstract" }
    /\ pc = "done" => Len(results) = Len(references)

\* C26: verify_references returns one result per input record, in the
\* records' order, each with all the fields of its record unchanged plus the
\* verification outcomes and the status, and no step of it changes the input
\* records: the abstract taken from Crossref goes to the result only.
ResultsCarryRecordsUnchanged ==
    [][references' = references /\ OneResultPerRecord']_vars

\* Two records were verified, the first got an abstract from Crossref that
\* its record does not have.
AbstractOnResultOnly ==
    /\ pc = "done"
    /\ Len(references) = 2
    /\ Len(results) = 2
    /\ "abstract" \in DOMAIN results[1]
    /\ "abstract" \notin DOMAIN references[1]
    /\ "url" \in DOMAIN references[1]
    /\ "doi" \notin DOMAIN references[2]


\* ------------------------------- search_alternatives_for_invalid, alone

\* Longest list of results the alternatives pass is called on.
MaxAlt == 3

\* A result as verify_references emits it.
ResultOf(r, status) == NewResult(r) @@ ("status" :> status)

\* Its results: an INVALID one with the fields a search is made of, an
\* INVALID one without them, a VALID one.
AltResults ==
    { ResultOf(Reference("doi" :> << "10.1000/xyz123" >>, << >>, AllOthers), "INVALID"),
      ResultOf(Reference("doi" :> << "10.1000/xyz123" >>, << >>, { }), "INVALID"),
      ResultOf(Reference("doi" :> << "10.1000/xyz123" >>, << >>, AllOthers), "VALID") }

RECURSIVE AltBatches(_)
AltBatches(n) ==
    IF n = 0 THEN { << >> }
    ELSE LET shorter == AltBatches(n - 1)
         IN  shorter \cup { Append(b, r) : b \in { x \in shorter : Len(x) = n - 1 },
                                           r \in AltResults }

\* An error status whose body is the JSON of a search answer.
ErrorWithItems ==
    Response(503, JDict("message" :> JDict("items" :> JList(<< WorkMessage >>))))

\* The transports of the pass: a 200, and one way for a search to fail.
AltTransports == { { Ok, f } : f \in Faults \cup { ErrorWithItems } }

InitAlt ==
    /\ references = << >>
    /\ transport \in AltTransports
    /\ pc = "enriched"
    /\ idx = 0
    /\ result = << >>
    /\ results \in AltBatches(MaxAlt)
    /\ trace = << >>
    /\ requests = << >>
    /\ run = 1
    /\ first = << >>
    /\ answers = << >>
    /\ drawn = [ua |-> 1, d |-> DelayMin]
    /\ call = << >>
    /\ ret = << >>
    /\ args \in { o \in Options : o.search_alternatives /\ ~o.fetch_abstract /\ ~o.use_browser }
    /\ alt = NotSearching
    /\ files = << >>
    /\ summary = << >>
    /\ enrich = NotEnriching
    /\ gui = NotRunning

NextAlt ==
    \/ SearchAlternatives
    \/ SearchFor(1, DelayMin)
    \/ SaveAlternatives

SpecAlt == InitAlt /\ [][NextAlt]_vars

\* The place of result `at` in invalid_refs.
PlaceOf(at) == CHOOSE p \in 1..Len(alt.refs) : alt.refs[p] = at

\* C27: a search that failed (the session raised, the status was not 200,
\* the body could not be read) handed back no candidate and raised nothing:
\* the loop went past its result, the pass is not stopped at it, and the
\* pass goes on to the results after it or to the saving of the file.
SearchFailureIsLocal ==
    \A k \in 1..Len(alt.searches) :
        alt.searches[k].failure # "none" =>
            /\ alt.searches[k].found = 0
            /\ Len(alt.searches[k].requests) = 1
            /\ alt.i >= PlaceOf(alt.searches[k].of)
            /\ pc # "alternatives_raised" \/ k < Len(alt.searches)
            /\ pc = "alternatives" =>
                  IF alt.i < Len(alt.refs) THEN ENABLED SearchFor(1, DelayMin)
                  ELSE ENABLED SaveAlternatives

\* The search for the first INVALID result failed, the search for the
\* second one found candidates, and the file was written.
SearchedOnAfterFailure ==
    /\ pc = "report"
    /\ Len(alt.searches) >= 2
    /\ alt.searches[1].failure # "none"
    /\ alt.searches[2].failure = "none"
    /\ alt.searches[2].found > 0
    /\ alt.searches[1].of # alt.searches[2].of
    /\ "alternatives_output" \in DOMAIN files


\* C28: once generate_report has returned, the report is in the file of the
\* -o option.
ReportFileWritten == pc = "exit" => "output" \in DOMAIN files


\* C30: a request to the first resolver host that raises (timeout,
\* connection error, any other exception) is the last request of the check,
\* which returns valid = false with status code 0; the second host is
\* contacted only when the HEAD on the first host was answered with a status
\* other than 200, 404 and 403.
ExceptionEndsTheCheck ==
    (Answered /\ call.client = "verify_doi") =>
        /\ \A i \in 1..Len(Sent) :
              (Host(Sent[i]) = "https://doi.org/" /\ AnswerTo(i).exc # "none") =>
                  /\ i = Len(Sent)
                  /\ ~ret[1].valid
                  /\ ret[1].status_code = 0
        /\ (\E i \in 1..Len(Sent) : Host(Sent[i]) = "https://dx.doi.org/") =>
              /\ AnswerTo(1).exc = "none"
              /\ AnswerTo(1).status \notin { 200, 404, 403 }

\* The HEAD on the first host was answered 403 and the GET after it timed
\* out: the check ended there.
TimedOutAtFirstHost ==
    /\ Answered
    /\ call.client = "verify_doi"
    /\ Len(Sent) = 2
    /\ Sent[2].method = "GET"
    /\ Host(Sent[2]) = "https://doi.org/"
    /\ AnswerTo(2).exc = "Timeout"
    /\ ret[1] = DoiReturn(FALSE, << "Timeout" >>, 0, Sent)


\* ------------------------- verify_references against errors with a body

\* An error status whose body is the JSON of a work.
ErrorWithMessage == Response(500, JDict("message" :> WorkMessage))

InitSnapshot ==
    Start(Batches(MaxRecords), { { Ok, ErrorWithMessage } }, { NoOptions })

SpecSnapshot == InitSnapshot /\ [][Next]_vars

\* The abstract of result i is not one its record came with.
AbstractDerived(i) ==
    "abstract" \in DOMAIN results[i] /\ "abstract" \notin DOMAIN references[i]

\* C31: an emitted result carries a Crossref snapshot, or an abstract taken
\* from Crossref, only if its record has a DOI and its Crossref outcome is
\* valid = true.
SnapshotOnlyWhenValid ==
    \A i \in 1..Len(results) :
        LET v == results[i]["verification"]
        IN  ("crossref" \in DOMAIN v \/ AbstractDerived(i)) =>
                /\ "doi" \in DOMAIN references[i]
                /\ "doi_crossref" \in DOMAIN v
                /\ v["doi_crossref"].valid

\* Two records with a DOI were verified: Crossref answered the first with a
\* work, whose snapshot and abstract the result carries, and the second with
\* an error status, and that result carries neither.
SnapshotForValidOnly ==
    /\ pc = "done"
    /\ Len(results) = 2
    /\ "crossref" \in DOMAIN results[1]["verification"]
    /\ AbstractDerived(1)
    /\ results[1]["verification"]["doi_crossref"].valid
    /\ "doi_crossref" \in DOMAIN results[2]["verification"]
    /\ ~results[2]["verification"]["doi_crossref"].valid
    /\ results[2]["verification"]["doi_crossref"].message
           = << "Crossref error (HTTP ", "500", ")" >>
    /\ "crossref" \notin DOMAIN results[2]["verification"]
    /\ "abstract" \notin DOMAIN results[2]


\* With no INVALID result the pass writes nothing; when the pass returns
\* after its loop the file is written, be it with the header alone.
AlternativesFileOnReturn ==
    /\ InvalidRefs(results) = << >> => "alternatives_output" \notin DOMAIN files
    /\ (pc = "report" /\ InvalidRefs(results) # << >>) =>
          "alternatives_output" \in DOMAIN files

\* C32: once search_alternatives_for_invalid has ended, the alternatives
\* file is written if and only if the results hold an INVALID result.
AlternativesFileIffInvalid ==
    pc \in { "report", "alternatives_raised" } =>
        ("alternatives_output" \in DOMAIN files <=> InvalidRefs(results) # << >>)

\* C33: a run on a batch of zero records gets through generate_report
\* without raising, with a summary whose counts are all 0.
EmptyBatchCompletes ==
    references = << >> =>
        /\ pc # "report_raised"
        /\ pc = "exit" => summary = [total |-> 0, valid |-> 0, invalid |-> 0, no_id |-> 0]


\* The step delivers the done or error event of the run started last.
ConsumesTerminalOfRun ==
    /\ gui.queue # << >>
    /\ Head(gui.queue).kind \in { "done", "error" }
    /\ Head(gui.queue).run = gui.runs
    /\ gui'.delivered = Append(gui.delivered, Head(gui.queue))

\* C34: at most one worker thread is active at any time, and while one is
\* active state['running'] is true; a step starts a worker only from
\* state['running'] false with no worker active, and sets it true; a step
\* sets state['running'] false only by delivering the done or error event of
\* the run under way; no step starts a worker while one is active.
OneWorkerAtATime ==
    [][/\ Cardinality(gui'.workers) <= 1
       /\ gui'.workers # { } => gui'.running
       /\ gui'.workers \ gui.workers # { } =>
             /\ ~gui.running
             /\ gui.workers = { }
             /\ gui'.running
       /\ (gui.running /\ ~gui'.running) => ConsumesTerminalOfRun]_vars

\* The second run's worker is active after the first run was finished and
\* its done event consumed.
SecondRunUnderWay ==
    /\ gui.runs = 2
    /\ gui.workers = { 2 }
    /\ gui.running
    /\ gui.delivered # << >>
    /\ gui.delivered[Len(gui.delivered)].kind = "done"
    /\ gui.delivered[Len(gui.delivered)].run = 1


\* The GUI with its threads scheduled: a worker thread goes on to its next
\* put until it has ended, root.after fires the next tick, and a tick goes
\* on to its next get_nowait.
SpecGuiLive ==
    /\ SpecGui
    /\ WF_vars(WorkerPut \/ WorkerEnd)
    /\ WF_vars(Tick)
    /\ WF_vars(GetNowait)

\* The places in the emitted events of those of run r, and of its done and
\* error events.
EventsOf(r) == { k \in 1..Len(gui.emitted) : gui.emitted[k].run = r }
TerminalsOf(r) == { k \in EventsOf(r) : gui.emitted[k].kind \in { "done", "error" } }

\* Every run has put at most one done or error event, exactly one once its
\* worker has ended, after all its other events; and the queue holds events
\* of the run started last only.
RunsEndOnce ==
    /\ \A r \in 1..gui.runs :
          /\ Cardinality(TerminalsOf(r)) <= 1
          /\ r \notin gui.workers <=> Cardinality(TerminalsOf(r)) = 1
          /\ \A t \in TerminalsOf(r) : \A k \in EventsOf(r) : k <= t
    /\ \A k \in 1..Len(gui.queue) : gui.queue[k].run = gui.runs

\* C35: every worker run enqueues exactly one terminal event, done or error,
\* as its last event; so every started run is followed by the UI loop
\* setting state['running'] back to false, and no event of a finished run is
\* left to deliver once a later run has started.
TerminalEventEndsEveryRun ==
    /\ []RunsEndOnce
    /\ gui.running ~> ~gui.running

\* The first run ended in an error and the second, after a log event, in
\* done; both terminal events were delivered and state['running'] is false.
TwoRunsEnded ==
    /\ gui.runs = 2
    /\ ~gui.running
    /\ gui.workers = { }
    /\ Len(gui.delivered) = 3
    /\ gui.delivered[1].kind = "error" /\ gui.delivered[1].run = 1
    /\ gui.delivered[2].kind = "log" /\ gui.delivered[2].run = 2
    /\ gui.delivered[3].kind = "done" /\ gui.delivered[3].run = 2

====
